---- MODULE Spec2Model ----
(***************************************************************************)
(* BorIS reporting core: GovCouncilReport (reports/council.py) and         *)
(* HygieneReport (reports/hygiene.py) over the case-management tables      *)
(* Person/Client/Anonymous, Town, Encounter, Service, SyringeCollection,   *)
(* Anamnesis and RiskyManners.                                             *)
(*                                                                         *)
(* The tables are the state.  Rows are created by the case-management UI   *)
(* (the Add... actions); a report run reads the tables and leaves its      *)
(* result in `report`.                                                     *)
(***************************************************************************)
EXTENDS Integers, Sequences, FiniteSets, TLC

VARIABLES persons, encounters, services, syringes, notes, report, args

vars == <<persons, encounters, services, syringes, notes, report, args>>
tables == <<persons, encounters, services, syringes, notes>>

(***************************************************************************)
(* Bounds of the model.                                                    *)
(***************************************************************************)
MaxPersons == 2
MaxEncounters == 2
MaxServices == 2
MaxSyringes == 1
MaxDay == 3
MaxClients == 3
MaxNotes == 2

(***************************************************************************)
(* Values.                                                                 *)
(***************************************************************************)
\* Python's None, and an optional value as a sequence of length <= 1.
None == <<>>
Some(x) == <<x>>
IsNone(o) == o = <<>>
The(o) == o[1]

\* Town.objects.all(): the rows of the Town table.
Towns == {"t1", "t2"}

\* Dates are day numbers; a year has YearLen days.
Days == 1..MaxDay
YearLen == 2
YearOf(d) == (d - 1) \div YearLen

\* A datetime is <<date, second of the day>>.
Time0 == 0
Time235959 == 86399
combine(d, t) == <<d, t>>
\* A DateField lookup value: Django's DateField.to_python turns a datetime
\* into its date before the comparison is made.
DateFieldPrep(dt) == dt[1]

\* boris.classification.DRUGS, as named by council.py, and a Drug row the
\* report does not name.
DRUGS == {"HEROIN", "SUBUTEX_LEGAL", "SUBUTEX_ILLEGAL", "SUBOXONE",
          "METHADONE", "VENDAL", "RAW_OPIUM", "BRAUN", "METHAMPHETAMINE",
          "COCAINE", "THC", "ECSTASY", "LSD", "PSYLOCIBE", "INHALER_DRUGS",
          "DESIGNER_DRUGS", "MEDICAMENTS", "ALCOHOL", "TOBACCO",
          "PATHOLOGICAL_GAMBLING", "OTHER_NON_SUBSTANCE_ADDICTION",
          "UNLISTED"}
SEXES == {"MALE", "FEMALE"}
DRUG_APPLICATION_TYPES == {"VEIN_INJECTION", "MUSCLE_INJECTION", "ORAL"}
DISEASES == {"HIV", "VHC", "VHB", "SYFILIS"}

\* The service classes council.py imports.
ServiceClasses == {"Address", "ContactWork", "IncomeFormFillup",
                   "IndividualCounselling", "CrisisIntervention",
                   "SocialWork", "HarmReduction", "BasicMedicalTreatment",
                   "InformationService", "IncomeExamination", "DiseaseTest",
                   "HygienicService", "FoodService", "WorkTherapy",
                   "PostUsage", "UrineTest", "GroupCounselling",
                   "WorkWithFamily", "WorkTherapyMeeting", "UtilityWork",
                   "AsistService"}

\* boris.classification.RISKY_BEHAVIOR_PERIODICITY; a nullable field may
\* also hold no value ("NULL").
RISKY_BEHAVIOR_PERIODICITY == {"NEVER", "ONCE", "OFTEN", "UNKNOWN", "NULL"}

\* A cell of a report row: a number, a string, or SQL NULL (Python None).
Num(n) == [num |-> n]
Str(s) == [str |-> s]
Null == [null |-> TRUE]
IsNum(c) == DOMAIN c = {"num"}
IsStr(c) == DOMAIN c = {"str"}

(***************************************************************************)
(* Helpers on sequences and sets.                                          *)
(***************************************************************************)
Range(s) == {s[i] : i \in DOMAIN s}

RECURSIVE SumSeq(_)
SumSeq(s) == IF s = <<>> THEN 0 ELSE Head(s) + SumSeq(Tail(s))

RECURSIVE Concat(_)
Concat(ss) == IF ss = <<>> THEN <<>> ELSE Head(ss) \o Concat(Tail(ss))

\* The indices of table t whose row satisfies P, in primary-key order.
Ids(t, P(_)) == SelectSeq([i \in 1..Len(t) |-> i], LAMBDA i : P(t[i]))

Map(s, F(_)) == [i \in 1..Len(s) |-> F(s[i])]

Min(S) == CHOOSE x \in S : \A y \in S : x <= y

(***************************************************************************)
(* Table rows.                                                             *)
(***************************************************************************)
Person(kind, drug, sex, usage, close, partner, birth, anamnesis) ==
    [kind |-> kind, primary_drug |-> drug, sex |-> sex,
     primary_drug_usage |-> usage, close_person |-> close,
     sex_partner |-> partner, birthdate |-> birth, anamnesis |-> anamnesis]

\* Anonymous.objects and Client.objects: the primary keys of each subtype.
AnonymousIds == {i \in 1..Len(persons) : persons[i].kind = "Anonymous"}
ClientIds == {i \in 1..Len(persons) : persons[i].kind = "Client"}

Encounter(person, performed_on, where, phone) ==
    [person |-> person, performed_on |-> performed_on, where |-> where,
     is_by_phone |-> phone]

Service(encounter, cls, f) ==
    [encounter |-> encounter, cls |-> cls, fields |-> f]

SyringeCollection(date, town, count) ==
    [date |-> date, town |-> town, count |-> count]

\* The boolean fields of InformationService (services/models/basic.py).
InformationFields ==
    <<"safe_usage", "safe_sex", "medical", "socio_legal",
      "cure_possibilities", "literature", "other">>

\* The field values of a service; `flags` holds the boolean fields set.
NoFields == [disease |-> "None", pregnancy_test |-> FALSE,
             drug_test |-> FALSE, in_count |-> 0, out_count |-> 0,
             flags |-> {}]

(***************************************************************************)
(* GovCouncilReport (reports/council.py).                                  *)
(* A report object r has the fields set by __init__, and `today`, the      *)
(* value date.today() has during the run.                                  *)
(***************************************************************************)
GovCouncilReport(date_from, date_to, kind, towns, today) ==
    [datetime_from |-> combine(date_from, Time0),
     datetime_to |-> combine(date_to, Time235959),
     kind |-> IF kind = 1 THEN "clients" ELSE "services",
     towns |-> towns,
     today |-> today]

\* Mutant: the town filter is applied even when it is empty.
TownFilter_always(r, town) == town \in r.towns

\* `if self.towns: filtering[...__in] = self.towns`
TownFilter(r, town) == IF r.towns # {} THEN town \in r.towns ELSE TRUE

\* performed_on__gte=datetime_from, performed_on__lte=datetime_to, and the
\* town filter, on an Encounter row.
EncounterInScope(r, e) ==
    /\ e.performed_on >= DateFieldPrep(r.datetime_from)
    /\ e.performed_on <= DateFieldPrep(r.datetime_to)
    /\ TownFilter(r, e.where)

_get_anonymous_ids == AnonymousIds

\* The primary keys of the services of one class in scope.
_get_services(r, service_cls) ==
    Ids(services, LAMBDA s : /\ s.cls = service_cls
                             /\ EncounterInScope(r, encounters[s.encounter]))

_get_service_count(r, service_classes) ==
    SumSeq(Map(service_classes, LAMBDA c : Len(_get_services(r, c))))

\* values_list('encounter__person_id', flat=True) of a list of service ids.
PersonIdsOf(ids) == Map(ids, LAMBDA i : encounters[services[i].encounter].person)

\* Mutant: the clients of each class are counted and the counts added.
_get_client_count_per_class(r, service_classes) ==
    SumSeq(Map(service_classes,
               LAMBDA c : Cardinality(Range(PersonIdsOf(_get_services(r, c)))
                                          \ _get_anonymous_ids)))

\* Mutant: the anonymous ids are not taken out.
_get_client_count_with_anonymous(r, service_classes) ==
    Cardinality(Range(Concat(Map(service_classes,
                                 LAMBDA c : PersonIdsOf(_get_services(r, c))))))

_get_client_count(r, service_classes) ==
    LET person_ids ==
            Concat(Map(service_classes,
                       LAMBDA c : PersonIdsOf(_get_services(r, c))))
    IN  Cardinality(Range(person_ids) \ _get_anonymous_ids)

_get_queryset_client_count(qs) ==
    Cardinality(Range(PersonIdsOf(qs)) \ _get_anonymous_ids)

\* Mutant: the services of every person are counted, anonymous or not.
_get_anonymous_count_of_everyone(r, service_cls) ==
    Len(Ids(services,
            LAMBDA s : /\ s.cls = service_cls
                       /\ encounters[s.encounter].performed_on
                              >= DateFieldPrep(r.datetime_from)
                       /\ encounters[s.encounter].performed_on
                              <= DateFieldPrep(r.datetime_to)
                       /\ TownFilter(r, encounters[s.encounter].where)))

_get_anonymous_count(r, service_cls) ==
    Len(Ids(services,
            LAMBDA s : /\ s.cls = service_cls
                       /\ encounters[s.encounter].performed_on
                              >= DateFieldPrep(r.datetime_from)
                       /\ encounters[s.encounter].performed_on
                              <= DateFieldPrep(r.datetime_to)
                       /\ encounters[s.encounter].person \in _get_anonymous_ids
                       /\ TownFilter(r, encounters[s.encounter].where)))

\* aggregate(Sum(field)): SQL SUM is NULL over no rows.
SumAggregate(vals) == IF vals = <<>> THEN Null ELSE Num(SumSeq(vals))

_get_syringes_count(r) ==
    SumAggregate(Map(Ids(syringes,
                         LAMBDA c : /\ c.date >= DateFieldPrep(r.datetime_from)
                                    /\ c.date <= DateFieldPrep(r.datetime_to)
                                    /\ TownFilter(r, c.town)),
                     LAMBDA i : syringes[i].count))

\* __get_client_encounters(filtering): encounters in scope, by phone or not,
\* excluding those of anonymous persons.
get_client_encounters(r, is_by_phone) ==
    Ids(encounters, LAMBDA e : /\ e.is_by_phone = is_by_phone
                               /\ EncounterInScope(r, e)
                               /\ e.person \notin _get_anonymous_ids)

_get_direct_client_encounters(r) == get_client_encounters(r, FALSE)
_get_phone_client_encounters(r) == get_client_encounters(r, TRUE)

_get_phone_advice_count(r) ==
    LET encounter_ids ==
            UNION {Range(Map(_get_services(r, c),
                             LAMBDA i : services[i].encounter))
                   : c \in {"SocialWork", "IndividualCounselling",
                            "InformationService"}}
    IN  Cardinality({i \in encounter_ids : encounters[i].is_by_phone})

DiseaseTests(r, disease) ==
    SelectSeq(_get_services(r, "DiseaseTest"),
              LAMBDA i : services[i].fields.disease = disease)

_get_performed_tests_count(r, disease) == Len(DiseaseTests(r, disease))

_get_tested_clients_count(r, disease) ==
    Cardinality(Range(PersonIdsOf(DiseaseTests(r, disease)))
                    \ _get_anonymous_ids)

\* Client-related computations: a queryset of clients is a set of keys.
ClientsEncountered(r) ==
    {encounters[i].person :
        i \in {j \in 1..Len(encounters) : EncounterInScope(r, encounters[j])}}

\* Mutant: the persons are looked up among all persons, not the clients.
_get_all_drug_users_of_persons(r) ==
    {c \in 1..Len(persons) : /\ c \in ClientsEncountered(r)
                             /\ persons[c].primary_drug # "None"}

_get_all_drug_users(r) ==
    {c \in ClientIds : /\ c \in ClientsEncountered(r)
                       /\ persons[c].primary_drug # "None"}

_get_clients_non_drug_users(r) ==
    {c \in ClientIds : /\ c \in ClientsEncountered(r)
                       /\ (persons[c].close_person \/ persons[c].sex_partner)}

\* Mutant: only one of the given drugs is looked for.
_get_primary_drug_users_of_one_drug(r, drugs) ==
    {c \in _get_all_drug_users(r) :
        persons[c].primary_drug = CHOOSE d \in drugs : TRUE}

\* Mutant: the clients are not restricted to those encountered in scope.
_get_primary_drug_users_unscoped(r, drugs) ==
    {c \in ClientIds : persons[c].primary_drug \in drugs}

_get_primary_drug_users(r, drugs) ==
    {c \in _get_all_drug_users(r) : persons[c].primary_drug \in drugs}

\* int(round(float(a) / n)) for n > 0: Python 2's round, half away from 0.
RoundDiv(a, n) ==
    IF a >= 0 THEN (2 * a + n) \div (2 * n)
              ELSE -((2 * (-a) + n) \div (2 * n))

\* Mutant: integer division, as `sum(ages) / len(ages)` without float().
AverageAge_truncating(clients, today) ==
    LET years == Map(SelectSeq(clients, LAMBDA c : ~IsNone(c.birthdate)),
                     LAMBDA c : YearOf(The(c.birthdate)))
        this_year == YearOf(today)
        ages == Map(years, LAMBDA year : this_year - year)
    IN  IF ages # <<>> THEN SumSeq(ages) \div Len(ages) ELSE 0

\* _get_average_age over a list of client rows, with date.today() = today.
AverageAge(clients, today) ==
    LET years == Map(SelectSeq(clients, LAMBDA c : ~IsNone(c.birthdate)),
                     LAMBDA c : YearOf(The(c.birthdate)))
        this_year == YearOf(today)
        ages == Map(years, LAMBDA year : this_year - year)
    IN  IF ages # <<>> THEN RoundDiv(SumSeq(ages), Len(ages)) ELSE 0

\* Iterating a queryset of clients yields its rows.
ClientRows(qs) ==
    Map(SelectSeq([i \in 1..Len(persons) |-> i], LAMBDA i : i \in qs),
        LAMBDA i : persons[i])

_get_average_age(r, clients) == AverageAge(ClientRows(clients), r.today)

Males(qs) == {c \in qs : persons[c].sex = "MALE"}

_get_data_clients(r) ==
    LET drug(drugs) == Num(Cardinality(_get_primary_drug_users(r, drugs)))
        non_alcohol_users ==
            {c \in _get_all_drug_users(r) :
                persons[c].primary_drug \notin {"ALCOHOL", "TOBACCO"}}
        alcohol_users == _get_primary_drug_users(r, {"ALCOHOL"})
        tobacco_users == _get_primary_drug_users(r, {"TOBACCO"})
        non_drug_users == _get_clients_non_drug_users(r)
        non_substance_users ==
            _get_primary_drug_users(r, {"PATHOLOGICAL_GAMBLING",
                                        "OTHER_NON_SUBSTANCE_ADDICTION"})
        count(qs) == Num(Cardinality(qs))
    IN  << <<"TP", "", Str("")>>,
           <<"skupina 1", "drug users except alcohol and tobacco", Str("")>>,
           <<"1.1", "heroin", drug({"HEROIN"})>>,
           <<"1.2", "buprenorphine",
             drug({"SUBUTEX_LEGAL", "SUBUTEX_ILLEGAL", "SUBOXONE"})>>,
           <<"1.3", "methadone", drug({"METHADONE"})>>,
           <<"1.4", "other opiates", drug({"VENDAL", "RAW_OPIUM", "BRAUN"})>>,
           <<"1.5", "methamphetamine", drug({"METHAMPHETAMINE"})>>,
           <<"1.6", "cocaine/crack", drug({"COCAINE"})>>,
           <<"1.7", "cannabinoids", drug({"THC"})>>,
           <<"1.8", "ecstasy", drug({"ECSTASY"})>>,
           <<"1.9", "hallucinogens", drug({"LSD", "PSYLOCIBE"})>>,
           <<"1.10", "inhalants", drug({"INHALER_DRUGS"})>>,
           <<"1.11", "other drug", drug({"DESIGNER_DRUGS", "MEDICAMENTS"})>>,
           <<"1.12", "drug users total", count(non_alcohol_users)>>,
           <<"1.12.1", "of them men", count(Males(non_alcohol_users))>>,
           <<"1.12.2", "of them injecting",
             count({c \in non_alcohol_users :
                       persons[c].primary_drug_usage
                           \in {"VEIN_INJECTION", "MUSCLE_INJECTION"}})>>,
           <<"1.13", "average age",
             Num(_get_average_age(r, non_alcohol_users))>>,
           <<"skupina 2", "alcohol", Str("")>>,
           <<"2.1", "alcohol users total", count(alcohol_users)>>,
           <<"2.1.1", "of them men", count(Males(alcohol_users))>>,
           <<"2.2", "average age", Num(_get_average_age(r, alcohol_users))>>,
           <<"skupina 3", "tobacco", Str("")>>,
           <<"3.1", "tobacco users total", count(tobacco_users)>>,
           <<"3.1.1", "of them men", count(Males(tobacco_users))>>,
           <<"3.2", "average age", Num(_get_average_age(r, tobacco_users))>>,
           <<"skupina 4", "non-substance addictions", Str("")>>,
           <<"4.1", "pathological gambling",
             drug({"PATHOLOGICAL_GAMBLING"})>>,
           <<"4.2", "other non-substance addiction",
             drug({"OTHER_NON_SUBSTANCE_ADDICTION"})>>,
           <<"4.3", "non-substance total", count(non_substance_users)>>,
           <<"4.3.1", "of them men", count(Males(non_substance_users))>>,
           <<"4.4", "average age",
             Num(_get_average_age(r, non_substance_users))>>,
           <<"skupina 5", "identified clients total", Str("")>>,
           <<"5.1", "all clients, users", count(_get_all_drug_users(r))>>,
           <<"5.1.1", "of them first contacts",
             Num(_get_client_count(r, <<"IncomeExamination">>))>>,
           <<"5.2", "other clients", count(non_drug_users)>>,
           <<"5.3", "all clients",
             Num(Cardinality(non_drug_users)
                   + Cardinality(_get_all_drug_users(r)))>>,
           <<"skupina 6", "unidentified clients", Str("")>>,
           <<"6.1", "estimate, opiates", Str("")>>,
           <<"6.2", "estimate, methamphetamine", Str("")>>,
           <<"6.3", "estimate, injecting", Str("")>>,
           <<"skupina 7", "mediated contact", Str("")>>,
           <<"7.1", "estimate, mediated contact", Str("")>> >>

_get_data_services(r) ==
    LET srv(classes) == Num(_get_service_count(r, classes))
        clients(classes) == Num(_get_client_count(r, classes))
        anon(cls) == _get_anonymous_count(r, cls)
        both(label, classes) == <<label, clients(classes), srv(classes)>>
        blank(label) == <<label, Str(""), Str("")>>
        harm_reductions == _get_services(r, "HarmReduction")
        direct_client_encounters == _get_direct_client_encounters(r)
        phone_client_encounters == _get_phone_client_encounters(r)
        directly_encountered_clients_count ==
            Cardinality(Range(Map(direct_client_encounters,
                                  LAMBDA i : encounters[i].person)))
        phone_encountered_clients_count ==
            Cardinality(Range(Map(phone_client_encounters,
                                  LAMBDA i : encounters[i].person)))
        pregnancy_test_services ==
            SelectSeq(_get_services(r, "UrineTest"),
                      LAMBDA i : services[i].fields.pregnancy_test)
        drug_test_services ==
            SelectSeq(_get_services(r, "UrineTest"),
                      LAMBDA i : services[i].fields.drug_test)
        tests(label, disease) ==
            <<label, Num(_get_tested_clients_count(r, disease)),
              Num(_get_performed_tests_count(r, disease))>>
    IN  << <<"direct contacts with clients",
             Num(directly_encountered_clients_count),
             Num(Len(direct_client_encounters))>>,
           <<"indirect contacts with identified clients",
             Num(phone_encountered_clients_count),
             Num(Len(phone_client_encounters))>>,
           <<"acts needed for direct work", Str("xxx"), srv(<<"Address">>)>>,
           <<"contact work",
             Num(_get_client_count(r, <<"ContactWork">>)
                   + anon("ContactWork")),
             srv(<<"ContactWork">>)>>,
           both("income form fillup", <<"IncomeFormFillup">>),
           both("individual counselling", <<"IndividualCounselling">>),
           blank("individual psychotherapy"),
           both("group counselling", <<"GroupCounselling">>),
           blank("group psychotherapy"),
           both("crisis intervention", <<"CrisisIntervention">>),
           blank("family therapy"),
           blank("groups for parents and close persons"),
           both("work therapy", <<"WorkTherapy", "WorkTherapyMeeting">>),
           both("social work", <<"SocialWork", "AsistService", "UtilityWork">>),
           both("work with family", <<"WorkWithFamily">>),
           blank("sociotherapy"),
           blank("sheltered work"),
           blank("psychiatric examination"),
           blank("somatic examination"),
           blank("pharmacotherapy"),
           blank("- substitution administered"),
           blank("- substitution prescribed"),
           both("basic medical treatment", <<"BasicMedicalTreatment">>),
           <<"phone, written and internet counselling", Str("xxx"),
             Num(_get_phone_advice_count(r))>>,
           both("correspondence work", <<"PostUsage">>),
           <<"information service",
             clients(<<"InformationService">>),
             Num(_get_service_count(r, <<"InformationService">>)
                   - anon("InformationService"))>>,
           blank("educational programme"),
           both("harm reduction material", <<"HarmReduction">>),
           <<"syringes given out", Str("xxx"),
             SumAggregate(Map(harm_reductions,
                              LAMBDA i : services[i].fields.out_count))>>,
           <<"syringes taken in", Str("xxx"),
             SumAggregate(Map(harm_reductions,
                              LAMBDA i : services[i].fields.in_count))>>,
           <<"syringes found", Str("xxx"), _get_syringes_count(r)>>,
           both("hygienic service", <<"HygienicService">>),
           both("food service", <<"FoodService">>),
           both("infectious disease testing", <<"DiseaseTest">>),
           tests("- HIV", "HIV"),
           tests("- HCV", "VHC"),
           tests("- HBV", "VHB"),
           tests("- syphilis", "SYFILIS"),
           <<"urine drug test",
             Num(_get_queryset_client_count(drug_test_services)),
             Num(Len(drug_test_services))>>,
           <<"urine pregnancy test",
             Num(_get_queryset_client_count(pregnancy_test_services)),
             Num(Len(pregnancy_test_services))>>,
           blank("addictologist examination, initial (38021)"),
           blank("addictologist examination, follow-up (39022)"),
           blank("addictologist minimal contact (38023)"),
           blank("addictological therapy, individual (38024)"),
           blank("addictological therapy, family (38025)"),
           blank("addictological therapy, group (38026)"),
           <<"total time of all services",
             Num(directly_encountered_clients_count
                   + phone_encountered_clients_count),
             Str("")>> >>

\* Mutant: rows whose cells are all zero or empty are left out.
get_data_without_empty_rows(r) ==
    LET rows == IF r.kind = "clients" THEN _get_data_clients(r)
                                      ELSE _get_data_services(r)
        first == IF r.kind = "clients" THEN 3 ELSE 2
    IN  SelectSeq(rows, LAMBDA row : \E i \in first..Len(row) :
                                        /\ row[i] # Null
                                        /\ IsNum(row[i]) => row[i].num # 0
                                        /\ IsStr(row[i]) => row[i].str # "")

get_data(r) ==
    IF r.kind = "clients" THEN _get_data_clients(r)
                          ELSE _get_data_services(r)

(***************************************************************************)
(* Service statistics (services/models/basic.py).                          *)
(* `filtering` holds the lookups the caller passes to objects.filter: the  *)
(* bounds on the date of the encounter.                                    *)
(***************************************************************************)
Filtering(date_from, date_to) ==
    [encounter__performed_on__gte |-> date_from,
     encounter__performed_on__lte |-> date_to]

\* model.objects.filter(**filtering)
Filtered(model, filtering) ==
    Ids(services,
        LAMBDA s : /\ s.cls = model
                   /\ encounters[s.encounter].performed_on
                          >= filtering.encounter__performed_on__gte
                   /\ encounters[s.encounter].performed_on
                          <= filtering.encounter__performed_on__lte)

\* One (title, count) pair per field: the records with the field set.
_boolean_stats(model, filtering, field_names) ==
    Map(field_names,
        LAMBDA fname :
            <<fname,
              Len(SelectSeq(Filtered(model, filtering),
                            LAMBDA i : fname \in services[i].fields.flags))>>)

\* Mutant: the total is the number of records, as for the other services.
InformationService_get_stats_of_records(filtering) ==
    LET boolean_stats ==
            _boolean_stats("InformationService", filtering, InformationFields)
    IN  << <<"InformationService",
             Len(Filtered("InformationService", filtering))>> >>
            \o boolean_stats

\* InformationService._get_stats(filtering)
InformationService_get_stats(filtering) ==
    LET boolean_stats ==
            _boolean_stats("InformationService", filtering, InformationFields)
    IN  << <<"InformationService",
             SumSeq(Map(boolean_stats, LAMBDA stat : stat[2]))>> >>
            \o boolean_stats

(***************************************************************************)
(* HygieneReport (reports/hygiene.py).                                     *)
(***************************************************************************)
HygieneReport(date_from, date_to, towns, kind) ==
    [datetime_from |-> combine(date_from, Time0),
     datetime_to |-> combine(date_to, Time235959),
     towns |-> IF towns # {} THEN towns ELSE Towns,
     kind |-> IF kind = 1 THEN "prevalence" ELSE "incidence"]

\* Encounter.objects.first(year, towns): for every person, the first
\* encounter recorded in the given year in the given towns.
FirstEncounters(year, towns) ==
    LET InYear(e) == YearOf(e.performed_on) = year /\ e.where \in towns
    IN  Ids(encounters,
            LAMBDA e : /\ InYear(e)
                       /\ \A j \in 1..Len(encounters) :
                             (/\ InYear(encounters[j])
                              /\ encounters[j].person = e.person)
                                 => e.performed_on <= encounters[j].performed_on)

\* performed_on__gte=self.datetime_from, performed_on__lt=self.datetime_to
HygieneInRange(r, e) ==
    /\ e.performed_on >= DateFieldPrep(r.datetime_from)
    /\ e.performed_on < DateFieldPrep(r.datetime_to)

\* The persons whose first encounter of the year falls into the range.
HygieneClients(r) ==
    LET first == FirstEncounters(YearOf(r.datetime_from[1]), r.towns)
    IN  {encounters[i].person :
            i \in {j \in Range(first) : HygieneInRange(r, encounters[j])}}

\* encounter_data[person]['objects']: the encounters of the person that
\* fulfil the date range and the towns.
EncounterObjects(r, person) ==
    Ids(encounters, LAMBDA e : /\ HygieneInRange(r, e)
                               /\ e.where \in r.towns
                               /\ e.person \in HygieneClients(r)
                               /\ e.person = person)

\* encounter_data.keys()
EncounterDataKeys(r) ==
    {p \in 1..Len(persons) : EncounterObjects(r, p) # <<>>}

\* Mutant: max instead of min.
first_encounter_date_latest(r, person) ==
    LET dates == {encounters[i].performed_on :
                     i \in Range(EncounterObjects(r, person))}
    IN  CHOOSE x \in dates : \A y \in dates : x >= y

first_encounter_date(r, person) ==
    Min({encounters[i].performed_on : i \in Range(EncounterObjects(r, person))})

\* Mutant: any income examination of the client counts, matched or not.
extra_been_cured_before_any(r, client) ==
    ~ \E i \in 1..Len(services) :
          /\ encounters[services[i].encounter].person = client
          /\ services[i].cls = "IncomeExamination"

extra_been_cured_before(r, client) ==
    ~ \E i \in 1..Len(services) :
          /\ services[i].encounter \in Range(EncounterObjects(r, client))
          /\ services[i].cls = "IncomeExamination"

\* Mutant: only a single use in the present counts as current use.
extra_intravenous_application_once(ivrm) ==
    IF IsNone(ivrm) THEN "d"
    ELSE LET present == The(ivrm).periodicity_in_present
             past == The(ivrm).periodicity_in_past
         IN  IF <<present, past>> = <<"NEVER", "NEVER">> THEN "c"
             ELSE IF present = "ONCE" THEN "b"
             ELSE IF present = "NEVER" /\ past \in {"ONCE", "OFTEN"} THEN "a"
             ELSE "d"

\* rm is the RiskyManners row of the behaviour, or None (DoesNotExist).
extra_intravenous_application(ivrm) ==
    IF IsNone(ivrm) THEN "d"
    ELSE LET present == The(ivrm).periodicity_in_present
             past == The(ivrm).periodicity_in_past
         IN  IF <<present, past>> = <<"NEVER", "NEVER">> THEN "c"
             ELSE IF present \in {"ONCE", "OFTEN"} THEN "b"
             ELSE IF present = "NEVER" /\ past \in {"ONCE", "OFTEN"} THEN "a"
             ELSE "d"

\* Mutant: the present periodicity is read whatever the first stage gave.
extra_syringe_sharing_present(iv, ssrm) ==
    IF iv \in {"a", "b"}
    THEN IF IsNone(ssrm) THEN Some("unknown")
         ELSE LET per == The(ssrm).periodicity_in_present
              IN  IF per \in {"ONCE", "OFTEN"} THEN Some("yes")
                  ELSE IF per = "NEVER" THEN Some("no")
                  ELSE Some("unknown")
    ELSE None

\* The value of a.extra_syringe_sharing, None when the attribute is not set.
extra_syringe_sharing(iv, ssrm) ==
    IF iv \in {"a", "b"}
    THEN IF IsNone(ssrm) THEN Some("unknown")
         ELSE LET per == IF iv = "b" THEN The(ssrm).periodicity_in_present
                                     ELSE The(ssrm).periodicity_in_past
              IN  IF per \in {"ONCE", "OFTEN"} THEN Some("yes")
                  ELSE IF per = "NEVER" THEN Some("no")
                  ELSE Some("unknown")
    ELSE None

\* The annotations the loop body gives to one anamnesis.
Annotate(a, client, first_date, cured) ==
    LET iv == extra_intravenous_application(a.ivrm)
    IN  [client |-> client,
         extra_first_encounter_date |-> first_date,
         extra_been_cured_before |-> cured,
         extra_intravenous_application |-> iv,
         extra_syringe_sharing |-> extra_syringe_sharing(iv, a.ssrm)]

\* Mutant: incidence drops the clients that were not cured before.
Skipped_inverted(r, cured) == r.kind = "incidence" /\ ~cured

\* `if self.kind == 'incidence' and a.extra_been_cured_before is True: continue`
Skipped(r, cured) == r.kind = "incidence" /\ cured

get_anamnesis_list(r) ==
    LET _a == SelectSeq([i \in 1..Len(persons) |-> i],
                        LAMBDA c : /\ c \in ClientIds
                                   /\ ~IsNone(persons[c].anamnesis)
                                   /\ c \in EncounterDataKeys(r))
        kept == SelectSeq(_a, LAMBDA c :
                              ~Skipped(r, extra_been_cured_before(r, c)))
    IN  Map(kept, LAMBDA c : Annotate(The(persons[c].anamnesis), c,
                                       first_encounter_date(r, c),
                                       extra_been_cured_before(r, c)))

(***************************************************************************)
(* The case-management UI creates rows; the reports only read them.  A     *)
(* request is served to its end before the next one starts: `report` holds *)
(* the result of the running request and is None between requests.         *)
(***************************************************************************)
RiskyManners(present, past) ==
    [periodicity_in_present |-> present, periodicity_in_past |-> past]

Anamnesis(ivrm, ssrm) == [ivrm |-> ivrm, ssrm |-> ssrm]

\* Persons registered in the database: an anonymous heroin user, and
\* clients with and without an anamnesis.
AnonymousHeroin ==
    Person("Anonymous", "HEROIN", "MALE", "None", FALSE, FALSE, None, None)
ClientHeroin ==
    Person("Client", "HEROIN", "MALE", "VEIN_INJECTION", FALSE, FALSE,
           Some(1), Some(Anamnesis(Some(RiskyManners("ONCE", "NEVER")),
                                   Some(RiskyManners("NEVER", "ONCE")))))
ClientAlcohol ==
    Person("Client", "ALCOHOL", "FEMALE", "ORAL", TRUE, FALSE,
           None, Some(Anamnesis(None, None)))
ClientNoAnamnesis ==
    Person("Client", "None", "FEMALE", "None", FALSE, TRUE, Some(1), None)

\* The date ranges a report is asked for.
Ranges == {<<a, b>> \in Days \X Days : a <= b}

AddPerson(p) ==
    /\ report = None
    /\ Len(persons) < MaxPersons
    /\ persons' = Append(persons, p)
    /\ UNCHANGED <<encounters, services, syringes, report, notes, args>>

AddEncounter(person, performed_on, where, is_by_phone) ==
    /\ report = None
    /\ Len(encounters) < MaxEncounters
    /\ person \in 1..Len(persons)
    /\ encounters' = Append(encounters,
                            Encounter(person, performed_on, where, is_by_phone))
    /\ UNCHANGED <<persons, services, syringes, report, notes, args>>

AddService(encounter, cls, f) ==
    /\ report = None
    /\ Len(services) < MaxServices
    /\ encounter \in 1..Len(encounters)
    /\ services' = Append(services, Service(encounter, cls, f))
    /\ UNCHANGED <<persons, encounters, syringes, report, notes, args>>

AddSyringeCollection(date, town, count) ==
    /\ report = None
    /\ Len(syringes) < MaxSyringes
    /\ syringes' = Append(syringes, SyringeCollection(date, town, count))
    /\ UNCHANGED <<persons, encounters, services, report, notes, args>>

\* GovCouncilReport(date_from, date_to, kind, towns).get_data()
RunGovCouncilReport(date_from, date_to, kind, towns) ==
    LET r == GovCouncilReport(date_from, date_to, kind, towns, MaxDay)
    IN  /\ report = None
        /\ report' = [name |-> "GovCouncilReport",
                      call |-> [date_from |-> date_from, date_to |-> date_to,
                                kind |-> kind, towns |-> towns],
                      r |-> r,
                      rows |-> get_data(r)]
        /\ UNCHANGED <<tables, args>>

\* Mutant: the annotated anamneses are saved.
RunHygieneReport_saving(date_from, date_to, towns, kind) ==
    LET r == HygieneReport(date_from, date_to, towns, kind)
        rows == get_anamnesis_list(r)
    IN  /\ report = None
        /\ report' = [name |-> "HygieneReport",
                      call |-> [date_from |-> date_from, date_to |-> date_to,
                                kind |-> kind, towns |-> towns],
                      r |-> r,
                      rows |-> rows]
        /\ persons' = [c \in 1..Len(persons) |->
                          IF \E i \in 1..Len(rows) : rows[i].client = c
                          THEN [persons[c] EXCEPT !.anamnesis =
                                   Some(CHOOSE a \in Range(rows) : a.client = c)]
                          ELSE persons[c]]
        /\ UNCHANGED <<encounters, services, syringes, notes, args>>

\* HygieneReport(date_from, date_to, towns, kind).get_anamnesis_list()
RunHygieneReport(date_from, date_to, towns, kind) ==
    LET r == HygieneReport(date_from, date_to, towns, kind)
    IN  /\ report = None
        /\ report' = [name |-> "HygieneReport",
                      call |-> [date_from |-> date_from, date_to |-> date_to,
                                kind |-> kind, towns |-> towns],
                      r |-> r,
                      rows |-> get_anamnesis_list(r)]
        /\ UNCHANGED <<tables, args>>

\* render() returns the response; the next request starts afresh.
Respond ==
    /\ report # None
    /\ report' = None
    /\ UNCHANGED <<tables, args>>

InitTables(population) ==
    /\ persons = population
    /\ encounters = <<>>
    /\ services = <<>>
    /\ syringes = <<>>
    /\ notes = {}
    /\ report = None
    /\ args = None

(***************************************************************************)
(* Spec: both reports over a database of one client with encounters in     *)
(* both towns, services and syringe collections.                           *)
(***************************************************************************)
Init == InitTables(<<ClientHeroin>>)

Next ==
    \/ \E d \in Days, t \in Towns : AddEncounter(1, d, t, FALSE)
    \/ \E e \in 1..MaxEncounters, c \in {"ContactWork", "IncomeExamination"} :
           AddService(e, c, NoFields)
    \/ \E d \in Days : AddSyringeCollection(d, "t1", 1)
    \/ \E ft \in Ranges, k \in {1, 2}, ts \in SUBSET Towns :
           RunGovCouncilReport(ft[1], ft[2], k, ts)
    \/ \E ft \in Ranges, ts \in SUBSET Towns, k \in {1, 2} :
           RunHygieneReport(ft[1], ft[2], ts, k)
    \/ Respond

Spec == Init /\ [][Next]_vars

(***************************************************************************)
(* SpecCouncil: the council report over encounters, direct and by phone,   *)
(* and services of several classes.                                        *)
(***************************************************************************)
InitCouncil == InitTables(<<ClientHeroin, AnonymousHeroin>>)

NextCouncil ==
    \/ \E person \in 1..2, d \in 1..MaxDay - 1, ph \in BOOLEAN :
           AddEncounter(person, d, "t1", ph)
    \/ \E e \in 1..MaxEncounters,
          c \in {"ContactWork", "WorkTherapy", "WorkTherapyMeeting"} :
           AddService(e, c, NoFields)
    \/ \E ft \in Ranges, k \in {1, 2}, ts \in SUBSET Towns :
           RunGovCouncilReport(ft[1], ft[2], k, ts)
    \/ Respond

SpecCouncil == InitCouncil /\ [][NextCouncil]_vars

(***************************************************************************)
(* SpecAnonymous: the council report over encounters and services of a     *)
(* client and of an anonymous person.                                      *)
(***************************************************************************)
InitAnonymous == InitTables(<<ClientHeroin, AnonymousHeroin>>)

\* The services the UI records in SpecAnonymous: class and field values.
AnonymousServices ==
    {<<"ContactWork", NoFields>>, <<"WorkTherapy", NoFields>>,
     <<"DiseaseTest", [NoFields EXCEPT !.disease = "HIV"]>>,
     <<"UrineTest", [NoFields EXCEPT !.drug_test = TRUE]>>}

NextAnonymous ==
    \/ \E person \in 1..2 : AddEncounter(person, 2, "t1", FALSE)
    \/ \E e \in 1..MaxEncounters, cf \in AnonymousServices :
           AddService(e, cf[1], cf[2])
    \/ \E ft \in Ranges, k \in {1, 2}, ts \in SUBSET Towns :
           RunGovCouncilReport(ft[1], ft[2], k, ts)
    \/ Respond

SpecAnonymous == InitAnonymous /\ [][NextAnonymous]_vars

(***************************************************************************)
(* SpecStats: statistics of InformationService over records with none,     *)
(* one, several and all of the boolean fields set.                         *)
(***************************************************************************)
\* InformationService._get_stats(filtering), called for the statistics of
\* the services.
GetStats(filtering) ==
    /\ report = None
    /\ report' = [name |-> "InformationService._get_stats",
                  call |-> filtering,
                  r |-> filtering,
                  rows |-> InformationService_get_stats(filtering)]
    /\ UNCHANGED <<tables, args>>

InformationFlags ==
    {{}, {"safe_usage"}, {"safe_usage", "safe_sex"}, {"other"},
     Range(InformationFields)}

InitStats == InitTables(<<ClientHeroin>>)

NextStats ==
    \/ \E d \in {1, MaxDay} : AddEncounter(1, d, "t1", FALSE)
    \/ \E e \in 1..MaxEncounters, F \in InformationFlags :
           AddService(e, "InformationService", [NoFields EXCEPT !.flags = F])
    \/ \E ft \in Ranges : GetStats(Filtering(ft[1], ft[2]))
    \/ Respond

SpecStats == InitStats /\ [][NextStats]_vars

(***************************************************************************)
(* Client notes (clients/views.py).                                        *)
(* A request carries its method, whether it is an AJAX request, its user   *)
(* and, for add_note, the posted form values.  A view returns a response   *)
(* or raises; the outcome and the notes table after the call are the       *)
(* result of the view.                                                     *)
(***************************************************************************)
NotePks == 1..MaxNotes

Users == {"admin", "alice", "bob", "carol"}

is_superuser(user) == user = "admin"

\* user.has_perm(perm): superusers hold every permission.
has_perm(user, perm) ==
    \/ is_superuser(user)
    \/ user \in {"alice", "bob"} /\ perm = "clients.delete_clientnote"

Http404 == [kind |-> "Http404"]
HttpResponse(content) == [kind |-> "HttpResponse", content |-> content]
HttpResponseRedirect(url) == [kind |-> "HttpResponseRedirect", url |-> url]
\* The view function ends without a return statement.
ReturnedNone == [kind |-> "None"]
\* `err_msg` is read before any branch has assigned it.
UnboundLocalError == [kind |-> "UnboundLocalError"]

\* serialize(d): the JSON text of a dictionary.
serialize(d) == [json |-> d]

\* format(datetime, get_format('DATETIME_FORMAT'))
format(datetime) == <<"DATETIME_FORMAT", datetime>>

ValidDatetimes == {"2011-10-02 10:00"}

\* ClientNoteForm(request.POST).errors: the names of the fields in error.
ClientNoteForm_errors(POST) ==
    {f \in {"datetime", "text", "client"} :
        \/ f = "datetime" /\ POST.datetime \notin ValidDatetimes
        \/ f = "text" /\ POST.text = ""
        \/ f = "client" /\ POST.client \notin ClientIds}

ClientNote(pk, author, client, datetime, text) ==
    [pk |-> pk, author |-> author, client |-> client, datetime |-> datetime,
     text |-> text]

\* Mutant: the note is saved before the form is validated.
add_note_saving_first(request, pk) ==
    IF request.method # "POST" \/ ~request.is_ajax
    THEN [response |-> Http404, notes |-> notes]
    ELSE LET errors == ClientNoteForm_errors(request.POST)
             client_note == ClientNote(pk, request.user, request.POST.client,
                                       request.POST.datetime,
                                       request.POST.text)
         IN  [response |->
                  IF errors # {}
                  THEN HttpResponse(serialize([error |-> "invalid form"]))
                  ELSE HttpResponse(serialize(
                           [id |-> pk, author |-> request.user,
                            datetime |-> format(request.POST.datetime),
                            text |-> request.POST.text])),
              notes |-> notes \cup {client_note}]

\* Mutant: the author of the saved note is the one posted with the form.
add_note_author_posted(request, pk) ==
    IF request.method # "POST" \/ ~request.is_ajax
    THEN [response |-> Http404, notes |-> notes]
    ELSE LET errors == ClientNoteForm_errors(request.POST)
             client_note == ClientNote(pk, request.POST.author,
                                       request.POST.client,
                                       request.POST.datetime,
                                       request.POST.text)
         IN  IF errors # {}
             THEN [response |->
                       HttpResponse(serialize([error |-> "invalid form"])),
                   notes |-> notes]
             ELSE [response |-> HttpResponse(serialize(
                                    [id |-> pk, author |-> client_note.author,
                                     datetime |-> format(request.POST.datetime),
                                     text |-> request.POST.text])),
                   notes |-> notes \cup {client_note}]

\* add_note(request); pk is the key the database gives a saved note.
add_note(request, pk) ==
    IF request.method # "POST" \/ ~request.is_ajax
    THEN [response |-> Http404, notes |-> notes]
    ELSE LET errors == ClientNoteForm_errors(request.POST)
             client_note == ClientNote(pk, request.user, request.POST.client,
                                       request.POST.datetime,
                                       request.POST.text)
         IN  IF errors # {}
             THEN [response |->
                       IF "datetime" \in errors
                       THEN HttpResponse(serialize(
                                [error |-> "enter a valid date and time"]))
                       ELSE IF "text" \in errors
                       THEN HttpResponse(serialize(
                                [error |-> "enter a non-empty text"]))
                       ELSE IF "client" \in errors
                       THEN HttpResponse(serialize(
                                [error |-> "the client does not exist"]))
                       ELSE UnboundLocalError,
                   notes |-> notes]
             ELSE [response |-> HttpResponse(serialize(
                                    [id |-> pk, author |-> request.user,
                                     datetime |-> format(request.POST.datetime),
                                     text |-> request.POST.text])),
                   notes |-> notes \cup {client_note}]

\* Mutant: every permitted user may delete the note, its author or not.
delete_note_by_any_permitted(request, note_id) ==
    IF ~has_perm(request.user, "clients.delete_clientnote")
    THEN [response |-> HttpResponseRedirect("login"), notes |-> notes]
    ELSE IF ~request.is_ajax
    THEN [response |-> Http404, notes |-> notes]
    ELSE IF ~\E n \in notes : n.pk = note_id
    THEN [response |-> Http404, notes |-> notes]
    ELSE [response |-> HttpResponse(Str("OK")),
          notes |-> {n \in notes : n.pk # note_id}]

\* Mutant: the notes with the key are deleted, none being no error.
delete_note_filter_delete(request, note_id) ==
    IF ~has_perm(request.user, "clients.delete_clientnote")
    THEN [response |-> HttpResponseRedirect("login"), notes |-> notes]
    ELSE IF ~request.is_ajax
    THEN [response |-> Http404, notes |-> notes]
    ELSE [response |-> HttpResponse(Str("OK")),
          notes |-> {n \in notes :
                        \/ n.pk # note_id
                        \/ ~(is_superuser(request.user)
                                \/ n.author = request.user)}]

\* delete_note(request, note_id) under
\* @permission_required('clients.delete_clientnote'), which sends a user
\* without the permission to the login page.
delete_note(request, note_id) ==
    IF ~has_perm(request.user, "clients.delete_clientnote")
    THEN [response |-> HttpResponseRedirect("login"), notes |-> notes]
    ELSE IF ~request.is_ajax
    THEN [response |-> Http404, notes |-> notes]
    ELSE IF ~\E n \in notes : n.pk = note_id
    THEN [response |-> Http404, notes |-> notes]
    ELSE LET note == CHOOSE n \in notes : n.pk = note_id
         IN  IF is_superuser(request.user) \/ note.author = request.user
             THEN [response |-> HttpResponse(Str("OK")),
                   notes |-> notes \ {note}]
             ELSE [response |-> ReturnedNone, notes |-> notes]

\* A request to add_note; the database picks an unused key for a new note.
AddNote(request, pk) ==
    /\ report = None
    /\ pk \notin {n.pk : n \in notes}
    /\ LET res == add_note(request, pk)
       IN  /\ notes' = res.notes
           /\ report' = [name |-> "add_note", call |-> request,
                         response |-> res.response]
    /\ UNCHANGED <<persons, encounters, services, syringes, args>>

\* A request to delete_note.
DeleteNote(request, note_id) ==
    /\ report = None
    /\ LET res == delete_note(request, note_id)
       IN  /\ notes' = res.notes
           /\ report' = [name |-> "delete_note",
                         call |-> [request |-> request, note_id |-> note_id],
                         response |-> res.response]
    /\ UNCHANGED <<persons, encounters, services, syringes, args>>

\* The values a form is posted with: valid, malformed and missing ones,
\* for an existing client and for one that does not exist, with and without
\* an author among the posted values.
PostedForms ==
    [client : {1, 2}, datetime : ValidDatetimes \cup {"yesterday", ""},
     text : {"", "called"}, author : {"", "admin"}]

(***************************************************************************)
(* SpecNotes: requests to add_note and delete_note by users with and       *)
(* without the delete permission.                                          *)
(***************************************************************************)
InitNotes == InitTables(<<ClientHeroin>>)

NextNotes ==
    \/ \E m \in {"GET", "POST"}, x \in BOOLEAN, u \in Users,
          f \in PostedForms, pk \in NotePks :
           AddNote([method |-> m, is_ajax |-> x, user |-> u, POST |-> f], pk)
    \/ \E x \in BOOLEAN, u \in Users, id \in 1..MaxNotes + 1 :
           DeleteNote([method |-> "POST", is_ajax |-> x, user |-> u], id)
    \/ Respond

SpecNotes == InitNotes /\ [][NextNotes]_vars

(***************************************************************************)
(* SpecQuarter: the 'clients' report over three heroin clients, two        *)
(* alcohol clients and an anonymous heroin user, each with one encounter.  *)
(***************************************************************************)
QuarterPersons ==
    <<ClientHeroin, ClientHeroin, ClientHeroin, ClientAlcohol, ClientAlcohol,
      AnonymousHeroin>>

InitQuarter ==
    /\ persons = QuarterPersons
    /\ encounters \in
           {[i \in 1..Len(QuarterPersons) |->
                Encounter(i, days[i], IF i = 1 THEN town ELSE "t1", FALSE)] :
               days \in [1..Len(QuarterPersons) -> {1, MaxDay}],
               town \in Towns}
    /\ services = <<>>
    /\ syringes = <<>>
    /\ notes = {}
    /\ report = None
    /\ args = None

NextQuarter ==
    \/ \E ft \in Ranges, ts \in SUBSET Towns :
           RunGovCouncilReport(ft[1], ft[2], 1, ts)
    \/ Respond

SpecQuarter == InitQuarter /\ [][NextQuarter]_vars

(***************************************************************************)
(* EncounterAdmin (services/admin.py).                                     *)
(* `obj` is None or the encounter being shown: its primary key (None       *)
(* before it is saved) and the answer of its is_editable().  `base` is     *)
(* the answer of the method of the base admin class.                       *)
(***************************************************************************)
\* EncounterAdmin.fieldsets: (name, {'fields': ...}) pairs, a field entry
\* being a name or a tuple of names.
EncounterAdmin_fieldsets ==
    << [name |-> None,
        fields |-> << <<"person", "performed_on">>, <<"where", "is_by_phone">>,
                      <<"performed_by">> >>] >>

\* ModelAdmin.declared_fieldsets: the fieldsets the class declares, if any.
declared_fieldsets == EncounterAdmin_fieldsets

\* flatten_fieldsets: the field names of all the fieldsets, in order.
flatten_fieldsets(fieldsets) ==
    Concat(Map(fieldsets, LAMBDA fs : Concat(fs.fields)))

\* The names of opts.local_fields and opts.local_many_to_many.
LocalFieldNames ==
    <<"id", "person", "performed_on", "where", "is_by_phone", "performed_by">>

AdminObject(pk, editable) == Some([pk |-> pk, is_editable |-> editable])

\* `obj is not None and not obj.is_editable()`
NotEditable(obj) == obj # None /\ ~The(obj).is_editable

get_readonly_fields(obj, base) ==
    IF NotEditable(obj)
    THEN IF declared_fieldsets # <<>>
         THEN flatten_fieldsets(declared_fieldsets)
         ELSE LocalFieldNames
    ELSE base

\* Mutant: the answer of the base class is returned for every encounter.
has_delete_permission_of_base(obj, base) == base

has_delete_permission(obj, base) ==
    IF NotEditable(obj) THEN FALSE ELSE base

show_save_and_add_another(obj) ==
    IF NotEditable(obj) THEN FALSE
    ELSE obj # None /\ The(obj).pk # None

show_save(obj) == FALSE

show_save_and_continue(obj) ==
    IF NotEditable(obj) THEN FALSE ELSE TRUE

\* The admin asks one method about the object of the request.
AdminCall(method) ==
    /\ report = None
    /\ report' =
           [name |-> method,
            rows |->
                CASE method = "get_readonly_fields" ->
                         [fields |-> get_readonly_fields(args.obj,
                                                         args.base_readonly)]
                  [] method = "has_delete_permission" ->
                         [answer |-> has_delete_permission(args.obj,
                                                           args.base_delete)]
                  [] method = "show_save_and_add_another" ->
                         [answer |-> show_save_and_add_another(args.obj)]
                  [] method = "show_save" ->
                         [answer |-> show_save(args.obj)]
                  [] method = "show_save_and_continue" ->
                         [answer |-> show_save_and_continue(args.obj)]]
    /\ UNCHANGED <<tables, args>>

AdminMethods ==
    {"get_readonly_fields", "has_delete_permission",
     "show_save_and_add_another", "show_save", "show_save_and_continue"}

(***************************************************************************)
(* SpecAdmin: the methods of EncounterAdmin on no object, on an unsaved    *)
(* and on a saved encounter, editable or not, for every answer of the base *)
(* class.                                                                  *)
(***************************************************************************)
AdminObjects ==
    {None} \cup {AdminObject(pk, e) :
                    pk \in {None} \cup {Some(k) : k \in 1..MaxEncounters},
                    e \in BOOLEAN}

InitAdmin ==
    /\ persons = <<>>
    /\ encounters = <<>>
    /\ services = <<>>
    /\ syringes = <<>>
    /\ notes = {}
    /\ report = None
    /\ \E obj \in AdminObjects,
          ro \in {<<>>, <<"performed_by">>, <<"person", "where">>},
          del \in BOOLEAN :
           args = [obj |-> obj, base_readonly |-> ro, base_delete |-> del]

NextAdmin == \E method \in AdminMethods : AdminCall(method)

SpecAdmin == InitAdmin /\ [][NextAdmin]_vars

(***************************************************************************)
(* DiseaseTest (services/models/basic.py).                                 *)
(* A record under validation carries the three boolean fields and the      *)
(* nullable fields disease and sign; a blank sign is the empty string.     *)
(***************************************************************************)
DiseaseTest(pre_test_advice, test_execution, post_test_advice, disease, sign) ==
    [pre_test_advice |-> pre_test_advice, test_execution |-> test_execution,
     post_test_advice |-> post_test_advice, disease |-> disease,
     sign |-> sign]

\* The truth value Python gives a nullable field: None and the empty string
\* are false; the keys of DISEASES and of DISEASE_TEST_SIGN are true.
Truthy(value) == value # None /\ The(value) # ""

ValidationError(msg) == Some(msg)

\* Mutant: parameters of a test that was not performed are let through.
DiseaseTest_clean_without_last_check(self) ==
    LET msg1 == IF ~(self.pre_test_advice \/ self.test_execution
                        \/ self.post_test_advice)
                THEN Some("select at least one option") ELSE None
        msg2 == IF self.test_execution
                     /\ ~(Truthy(self.disease) /\ Truthy(self.sign))
                THEN Some("enter the parameters of the test") ELSE msg1
    IN  IF msg2 # None THEN ValidationError(The(msg2)) ELSE None

\* DiseaseTest.clean(self): the ValidationError raised, None when the method
\* returns.  Each test overwrites the message of the one before.
DiseaseTest_clean(self) ==
    LET msg1 == IF ~(self.pre_test_advice \/ self.test_execution
                        \/ self.post_test_advice)
                THEN Some("select at least one option") ELSE None
        msg2 == IF self.test_execution
                     /\ ~(Truthy(self.disease) /\ Truthy(self.sign))
                THEN Some("enter the parameters of the test") ELSE msg1
        msg3 == IF ~self.test_execution
                     /\ (Truthy(self.disease) \/ Truthy(self.sign))
                THEN Some("no parameters without a performed test")
                ELSE msg2
    IN  IF msg3 # None THEN ValidationError(The(msg3)) ELSE None

\* The field values the stored service has.
DiseaseTestFields(self) ==
    [disease |-> IF self.disease = None THEN "None" ELSE The(self.disease),
     pregnancy_test |-> FALSE, drug_test |-> FALSE,
     in_count |-> 0, out_count |-> 0,
     flags |-> {f \in {"pre_test_advice", "test_execution",
                       "post_test_advice"} : self[f]},
     sign |-> self.sign]

\* The service form is submitted for an encounter: the model form runs
\* clean() when it validates and saves the record only if nothing was
\* raised.
SubmitDiseaseTest(encounter, self) ==
    /\ report = None
    /\ Len(services) < MaxServices
    /\ encounter \in 1..Len(encounters)
    /\ LET error == DiseaseTest_clean(self)
       IN  /\ services' =
                 IF error = None
                 THEN Append(services, Service(encounter, "DiseaseTest",
                                               DiseaseTestFields(self)))
                 ELSE services
           /\ report' = [name |-> "DiseaseTest", encounter |-> encounter,
                         call |-> self, response |-> error]
    /\ UNCHANGED <<persons, encounters, syringes, notes, args>>

\* The records submitted: every combination of the boolean fields with a
\* null, blank and set sign and with and without a disease.
DiseaseTestInputs ==
    {DiseaseTest(pre, exec, post, disease, sign) :
        pre \in BOOLEAN, exec \in BOOLEAN, post \in BOOLEAN,
        disease \in {None, Some("HIV")},
        sign \in {None, Some(""), Some("p")}}

(***************************************************************************)
(* SpecDiseaseTest: disease tests submitted for the encounters of a        *)
(* client.                                                                 *)
(***************************************************************************)
InitDiseaseTest == InitTables(<<ClientHeroin>>)

NextDiseaseTest ==
    \/ AddEncounter(1, 1, "t1", FALSE)
    \/ \E e \in 1..MaxEncounters, self \in DiseaseTestInputs :
           SubmitDiseaseTest(e, self)
    \/ Respond

SpecDiseaseTest == InitDiseaseTest /\ [][NextDiseaseTest]_vars

(***************************************************************************)
(* Prefilling of the encounter form (services/admin.py).                   *)
(* kwargs holds the keys 'initial' and 'widget' of the keyword arguments;  *)
(* a form field records the database field, the keyword arguments it was   *)
(* built with and who built it.  A GET parameter is None when it is absent *)
(* or empty.                                                               *)
(***************************************************************************)
NoKwargs == [initial |-> None, widget |-> "default"]

\* db_field.formfield(**kwargs)
db_field_formfield(db_field, kwargs) ==
    [name |-> db_field, initial |-> kwargs.initial, widget |-> kwargs.widget,
     by |-> "db_field.formfield"]

\* super(EncounterAdmin, self).formfield_for_dbfield(db_field, **kwargs)
super_formfield_for_dbfield(db_field, kwargs) ==
    [name |-> db_field, initial |-> kwargs.initial, widget |-> kwargs.widget,
     by |-> "ModelAdmin.formfield_for_dbfield"]

\* _prefill_by_encounter: the form field, None when the method returns
\* nothing.  kwargs is changed only on the paths that return a field.
_prefill_by_encounter(db_field, kwargs, encounter_id) ==
    IF db_field \in {"person", "where", "performed_by", "performed_on"}
    THEN IF encounter_id \notin 1..Len(encounters)
         THEN None
         ELSE LET encounter == encounters[encounter_id]
              IN  CASE db_field = "person" ->
                         Some(super_formfield_for_dbfield(db_field,
                             [kwargs EXCEPT
                                 !.initial = Some(encounter.person)]))
                    [] db_field = "where" ->
                         Some(super_formfield_for_dbfield(db_field,
                             [kwargs EXCEPT
                                 !.initial = Some(encounter.where)]))
                    [] db_field = "performed_by" ->
                         Some(db_field_formfield(db_field,
                             [kwargs EXCEPT
                                 !.widget = "SelectMultiple",
                                 !.initial = Some(encounter.performed_by)]))
                    [] db_field = "performed_on" ->
                         Some(super_formfield_for_dbfield(db_field,
                             [kwargs EXCEPT
                                 !.initial = Some(encounter.performed_on)]))
    ELSE None

\* _prefill_by_person; hasattr(person, 'town_id') is the record having the
\* field.
_prefill_by_person(db_field, kwargs, person_id) ==
    IF db_field \in {"person", "where"}
    THEN IF person_id \notin 1..Len(persons)
         THEN None
         ELSE LET person == persons[person_id]
              IN  IF db_field = "person"
                  THEN Some(db_field_formfield(db_field,
                           [kwargs EXCEPT !.widget = "ReadOnlyWidget",
                                          !.initial = Some(person_id)]))
                  ELSE IF db_field = "where" /\ "town_id" \in DOMAIN person
                  THEN Some(super_formfield_for_dbfield(db_field,
                           [kwargs EXCEPT !.initial = Some(person.town_id)]))
                  ELSE None
    ELSE None

\* The default of formfield_for_dbfield, when no prefilling returned a field.
formfield_default(db_field, request) ==
    IF db_field = "performed_by"
    THEN db_field_formfield(db_field,
             [NoKwargs EXCEPT !.widget = "SelectMultiple",
                              !.initial = Some({request.user})])
    ELSE super_formfield_for_dbfield(db_field, NoKwargs)

\* Mutant: person_id is consulted before previous_id.
formfield_for_dbfield_person_first(db_field, request) ==
    LET by_person ==
            IF request.GET.person_id # None
            THEN _prefill_by_person(db_field, NoKwargs,
                                    The(request.GET.person_id))
            ELSE None
        by_encounter ==
            IF request.GET.previous_id # None
            THEN _prefill_by_encounter(db_field, NoKwargs,
                                       The(request.GET.previous_id))
            ELSE None
    IN  IF by_person # None THEN The(by_person)
        ELSE IF by_encounter # None THEN The(by_encounter)
        ELSE formfield_default(db_field, request)

\* EncounterAdmin.formfield_for_dbfield(db_field, request=request)
formfield_for_dbfield(db_field, request) ==
    LET by_encounter ==
            IF request.GET.previous_id # None
            THEN _prefill_by_encounter(db_field, NoKwargs,
                                       The(request.GET.previous_id))
            ELSE None
        by_person ==
            IF request.GET.person_id # None
            THEN _prefill_by_person(db_field, NoKwargs,
                                    The(request.GET.person_id))
            ELSE None
    IN  IF by_encounter # None THEN The(by_encounter)
        ELSE IF by_person # None THEN The(by_person)
        ELSE formfield_default(db_field, request)

\* The admin builds the form field of one database field for a request.
FormfieldForDbfield(db_field, request) ==
    /\ report = None
    /\ report' = [name |-> "formfield_for_dbfield",
                  call |-> [db_field |-> db_field, request |-> request],
                  response |-> formfield_for_dbfield(db_field, request)]
    /\ UNCHANGED <<tables, args>>

\* A town of the client, and the users who performed an encounter.
WithTown(person, town) == person @@ [town_id |-> town]
PerformedBy(encounter, users) == encounter @@ [performed_by |-> users]

\* The requests to the add form: each parameter absent, naming a stored
\* row and naming none.
PrefillRequests ==
    [user : {"alice", "carol"},
     GET : [previous_id : {None} \cup {Some(k) : k \in 1..MaxEncounters},
            person_id : {None} \cup {Some(k) : k \in 1..MaxPersons + 1}]]

(***************************************************************************)
(* SpecPrefill: the add form of an encounter, over a client with a town,   *)
(* an anonymous person and one encounter of the client in another town.    *)
(***************************************************************************)
InitPrefill ==
    /\ persons = <<WithTown(ClientHeroin, "t2"), AnonymousHeroin>>
    /\ encounters = <<PerformedBy(Encounter(1, 2, "t1", FALSE),
                                  {"alice", "bob"})>>
    /\ services = <<>>
    /\ syringes = <<>>
    /\ notes = {}
    /\ report = None
    /\ args = None

NextPrefill ==
    \/ \E db_field \in Range(flatten_fieldsets(EncounterAdmin_fieldsets)),
          request \in PrefillRequests :
           FormfieldForDbfield(db_field, request)
    \/ Respond

SpecPrefill == InitPrefill /\ [][NextPrefill]_vars

(***************************************************************************)
(* SpecServices: the 'services' kind of the council report over services   *)
(* of a client and of an anonymous person: contact work, information       *)
(* service, the two classes of work therapy and tests of two diseases.     *)
(***************************************************************************)
InitServices == InitTables(<<ClientHeroin, AnonymousHeroin>>)

\* The services the UI records in SpecServices: class and field values.
RecordedServices ==
    {<<"ContactWork", NoFields>>, <<"InformationService", NoFields>>,
     <<"WorkTherapy", NoFields>>, <<"WorkTherapyMeeting", NoFields>>,
     <<"DiseaseTest", [NoFields EXCEPT !.disease = "HIV"]>>,
     <<"DiseaseTest", [NoFields EXCEPT !.disease = "VHC"]>>}

NextServices ==
    \/ \E person \in 1..2, ph \in BOOLEAN :
           AddEncounter(person, 2, "t1", ph)
    \/ \E e \in 1..MaxEncounters, cf \in RecordedServices :
           AddService(e, cf[1], cf[2])
    \/ \E ft \in {<<1, 1>>, <<2, 2>>, <<1, MaxDay>>}, ts \in {{}, {"t2"}} :
           RunGovCouncilReport(ft[1], ft[2], 2, ts)
    \/ Respond

SpecServices == InitServices /\ [][NextServices]_vars

(***************************************************************************)
(* SpecHygiene: the hygiene report over three clients, one of them without *)
(* an anamnesis, and their income examinations.                            *)
(***************************************************************************)
InitHygiene == InitTables(<<ClientHeroin, ClientAlcohol, ClientNoAnamnesis>>)

NextHygiene ==
    \/ \E person \in 1..3, d \in Days, t \in Towns :
           AddEncounter(person, d, t, FALSE)
    \/ \E e \in 1..MaxEncounters : AddService(e, "IncomeExamination", NoFields)
    \/ \E ft \in Ranges, k \in {1, 2}, ts \in SUBSET Towns :
           RunHygieneReport(ft[1], ft[2], ts, k)
    \/ Respond

SpecHygiene == InitHygiene /\ [][NextHygiene]_vars

(***************************************************************************)
(* SpecClients: the 'clients' kind of the council report over persons of   *)
(* every primary drug.                                                     *)
(***************************************************************************)
ClientWithDrug(drug) ==
    Person("Client", drug, "MALE", "ORAL", FALSE, FALSE, Some(1), None)

InitClients == InitTables(<<>>)

NextClients ==
    \/ \E drug \in DRUGS \cup {"None"} : AddPerson(ClientWithDrug(drug))
    \/ AddPerson(AnonymousHeroin)
    \/ \E person \in 1..MaxPersons, d \in {1, MaxDay} :
           AddEncounter(person, d, "t1", FALSE)
    \/ \E ft \in Ranges, ts \in {{}, {"t2"}} :
           RunGovCouncilReport(ft[1], ft[2], 1, ts)
    \/ Respond

SpecClients == InitClients /\ [][NextClients]_vars

(***************************************************************************)
(* SpecClassify: the risky-behaviour classification of one anamnesis, for  *)
(* every pair of RiskyManners rows (or none).                              *)
(***************************************************************************)
RiskyMannersRows ==
    {None} \cup {Some(RiskyManners(present, past)) :
                    present \in RISKY_BEHAVIOR_PERIODICITY,
                    past \in RISKY_BEHAVIOR_PERIODICITY}

InitClassify ==
    /\ persons = <<>>
    /\ encounters = <<>>
    /\ services = <<>>
    /\ syringes = <<>>
    /\ notes = {}
    /\ report = None
    /\ \E ivrm \in RiskyMannersRows, ssrm \in RiskyMannersRows :
           args = Anamnesis(ivrm, ssrm)

\* The loop body of get_anamnesis_list on one anamnesis.
Classify ==
    /\ report = None
    /\ report' = [name |-> "Classify", rows |-> Annotate(args, 1, 1, FALSE)]
    /\ UNCHANGED <<tables, args>>

NextClassify == Classify

SpecClassify == InitClassify /\ [][NextClassify]_vars

(***************************************************************************)
(* SpecAverageAge: _get_average_age over every list of up to MaxClients    *)
(* clients, with and without a birthdate.                                  *)
(***************************************************************************)
BirthDates == {None} \cup {Some(1 + k * YearLen) : k \in {0, 1, 3}}
Todays == {1 + 3 * YearLen, 2 + 4 * YearLen}

ClientBorn(birthdate) ==
    Person("Client", "HEROIN", "MALE", "ORAL", FALSE, FALSE, birthdate, None)

ClientLists ==
    UNION {[1..n -> {ClientBorn(b) : b \in BirthDates}] : n \in 0..MaxClients}

InitAverageAge ==
    /\ persons = <<>>
    /\ encounters = <<>>
    /\ services = <<>>
    /\ syringes = <<>>
    /\ notes = {}
    /\ report = None
    /\ \E clients \in ClientLists, today \in Todays :
           args = [clients |-> clients, today |-> today]

AverageAgeCall ==
    /\ report = None
    /\ report' = [name |-> "_get_average_age",
                  rows |-> AverageAge(args.clients, args.today)]
    /\ UNCHANGED <<tables, args>>

NextAverageAge == AverageAgeCall

SpecAverageAge == InitAverageAge /\ [][NextAverageAge]_vars

(***************************************************************************)
(* Properties.                                                             *)
(***************************************************************************)
Classified == report # None /\ report.name = "Classify"

\* C3: the intravenous-application class is a function of the record's
\* (periodicity_in_present, periodicity_in_past): (NEVER, NEVER) gives c,
\* present ONCE/OFTEN gives b whatever the past, present NEVER with past
\* ONCE/OFTEN gives a, anything else d, and a missing record gives d.
C3_IntravenousApplication ==
    Classified =>
        LET iv == report.rows.extra_intravenous_application
            present == The(args.ivrm).periodicity_in_present
            past == The(args.ivrm).periodicity_in_past
        IN  IF IsNone(args.ivrm) THEN iv = "d"
            ELSE /\ (present = "NEVER" /\ past = "NEVER") => iv = "c"
                 /\ present \in {"ONCE", "OFTEN"} => iv = "b"
                 /\ (present = "NEVER" /\ past \in {"ONCE", "OFTEN"})
                        => iv = "a"
                 /\ (/\ present \notin {"ONCE", "OFTEN"}
                     /\ ~(present = "NEVER"
                            /\ past \in {"NEVER", "ONCE", "OFTEN"}))
                        => iv = "d"

C3_Witness ==
    /\ Classified
    /\ ~IsNone(args.ivrm)
    /\ The(args.ivrm) = RiskyManners("OFTEN", "UNKNOWN")
    /\ report.rows.extra_intravenous_application = "b"

\* C4: syringe sharing is set only when the first stage is a or b; it reads
\* the past periodicity for a and the present one for b; ONCE/OFTEN gives
\* yes, NEVER no, anything else unknown, and a missing record unknown.
C4_SyringeSharing ==
    Classified =>
        LET iv == report.rows.extra_intravenous_application
            ss == report.rows.extra_syringe_sharing
            per == IF iv = "a" THEN The(args.ssrm).periodicity_in_past
                               ELSE The(args.ssrm).periodicity_in_present
        IN  /\ iv \in {"c", "d"} => ss = None
            /\ (iv \in {"a", "b"} /\ IsNone(args.ssrm)) => ss = Some("unknown")
            /\ (iv \in {"a", "b"} /\ ~IsNone(args.ssrm)) =>
                   /\ per \in {"ONCE", "OFTEN"} => ss = Some("yes")
                   /\ per = "NEVER" => ss = Some("no")
                   /\ per \notin {"ONCE", "OFTEN", "NEVER"}
                          => ss = Some("unknown")

C4_Witness ==
    /\ Classified
    /\ report.rows.extra_intravenous_application = "a"
    /\ ~IsNone(args.ssrm)
    /\ The(args.ssrm) = RiskyManners("NEVER", "OFTEN")
    /\ report.rows.extra_syringe_sharing = Some("yes")

AgeComputed == report # None /\ report.name = "_get_average_age"

\* The ages of the clients of a list that have a birthdate.
KnownAges(clients, today) ==
    LET known == SelectSeq(clients, LAMBDA c : c.birthdate # None)
    IN  [i \in 1..Len(known) |->
            YearOf(today) - YearOf(known[i].birthdate[1])]

\* C7: _get_average_age is the mean of (current year - birth year) over the
\* clients with a birthdate, rounded to an integer (so it differs from the
\* mean by at most one half), and 0 when no client has a birthdate.
C7_AverageAge ==
    AgeComputed =>
        LET ages == KnownAges(args.clients, args.today)
            n == Len(ages)
            diff == 2 * SumSeq(ages) - 2 * n * report.rows
        IN  IF n = 0 THEN report.rows = 0
            ELSE diff <= n /\ -diff <= n

C7_Witness ==
    /\ AgeComputed
    /\ \E i \in 1..Len(args.clients) : args.clients[i].birthdate = None
    /\ LET ages == KnownAges(args.clients, args.today)
       IN  /\ Len(ages) = 2
           /\ report.rows * 2 # SumSeq(ages)

HygieneRun == report # None /\ report.name = "HygieneReport"

\* The clients of the anamneses a hygiene report returned.
Listed(rows) == {rows[i].client : i \in 1..Len(rows)}

\* The candidate clients of a hygiene report: those with an anamnesis and
\* with encounters matched by the report's filter.
Candidates(r) ==
    {c \in ClientIds : persons[c].anamnesis # None /\ c \in EncounterDataKeys(r)}

\* The matched encounters of a client: its encounters in the report's
\* towns and date filter.
MatchedEncounters(r, c) ==
    {i \in 1..Len(encounters) : /\ encounters[i].person = c
                                /\ encounters[i].where \in r.towns
                                /\ HygieneInRange(r, encounters[i])}

HasIncomeExamination(E) ==
    \E i \in 1..Len(services) :
        services[i].encounter \in E /\ services[i].cls = "IncomeExamination"

\* C5: in incidence mode (kind # 1) the report returns exactly the
\* candidates whose been_cured_before flag is false, in prevalence mode
\* (kind = 1) every candidate; incidence is a subset of prevalence.
C5_IncidenceFilter ==
    HygieneRun =>
        LET c == report.call
            rows == report.rows
            prevalence ==
                get_anamnesis_list(HygieneReport(c.date_from, c.date_to,
                                                 c.towns, 1))
        IN  /\ c.kind = 1 => Listed(rows) = Candidates(report.r)
            /\ c.kind # 1 =>
                   /\ Listed(rows) =
                          {x \in Candidates(report.r) :
                              HasIncomeExamination(MatchedEncounters(report.r, x))}
                   /\ \A i \in 1..Len(rows) : ~rows[i].extra_been_cured_before
                   /\ Listed(rows) \subseteq Listed(prevalence)
                   /\ \A i \in 1..Len(prevalence) :
                          ~prevalence[i].extra_been_cured_before
                              => prevalence[i].client \in Listed(rows)

C5_Witness ==
    /\ HygieneRun
    /\ report.call.kind = 2
    /\ Cardinality(Candidates(report.r)) = 2
    /\ Len(report.rows) = 1

\* C6: a returned client's extra_been_cured_before is true iff no
\* IncomeExamination service exists among the client's matched encounters.
C6_BeenCuredBefore ==
    HygieneRun =>
        \A i \in 1..Len(report.rows) :
            report.rows[i].extra_been_cured_before
                <=> ~HasIncomeExamination(
                        MatchedEncounters(report.r, report.rows[i].client))

C6_Witness ==
    /\ HygieneRun
    /\ Len(report.rows) = 2
    /\ report.rows[1].extra_been_cured_before
    /\ ~report.rows[2].extra_been_cured_before
    /\ Len(services) = 2

CouncilRun(kind) ==
    /\ report # None
    /\ report.name = "GovCouncilReport"
    /\ report.r.kind = kind

\* The value cell of the row of a 'clients' report with the given code.
ClientsCell(rows, code) ==
    rows[CHOOSE i \in 1..Len(rows) : rows[i][1] = code][3]

PerDrugCodes == <<"1.1", "1.2", "1.3", "1.4", "1.5", "1.6", "1.7", "1.8",
                  "1.9", "1.10", "1.11">>

PerDrugSum(rows) ==
    SumSeq([i \in 1..Len(PerDrugCodes) |->
               ClientsCell(rows, PerDrugCodes[i]).num])

\* C2: in the 'clients' report the sum of the per-drug rows 1.1 to 1.11
\* does not exceed the drug-user total of row 1.12, nor that of row 5.1.
C2_PerDrugSum ==
    CouncilRun("clients") =>
        /\ PerDrugSum(report.rows) <= ClientsCell(report.rows, "1.12").num
        /\ PerDrugSum(report.rows) <= ClientsCell(report.rows, "5.1").num

C2_Witness ==
    /\ CouncilRun("clients")
    /\ PerDrugSum(report.rows) = 1
    /\ ClientsCell(report.rows, "1.12").num = 2
    /\ AnonymousIds = {}

\* The row of a 'services' report with the given label.
ServicesRow(rows, label) ==
    rows[CHOOSE i \in 1..Len(rows) : rows[i][1] = label]

\* The non-anonymous persons with a service of one of the classes on an
\* encounter in the scope of report r.
PersonsServed(r, classes) ==
    {p \in 1..Len(persons) :
        /\ persons[p].kind # "Anonymous"
        /\ \E i \in 1..Len(services) :
              /\ services[i].cls \in classes
              /\ encounters[services[i].encounter].person = p
              /\ EncounterInScope(r, encounters[services[i].encounter])}

\* C9: _get_client_count over a list of classes counts each non-anonymous
\* person once: the rows over several classes hold the size of the union of
\* the persons of all listed classes, without the anonymous ones.
C9_ClientCountUnion ==
    CouncilRun("services") =>
        /\ ServicesRow(report.rows, "work therapy")[2] =
               Num(Cardinality(PersonsServed(report.r,
                                   {"WorkTherapy", "WorkTherapyMeeting"})))
        /\ ServicesRow(report.rows, "social work")[2] =
               Num(Cardinality(PersonsServed(report.r,
                                   {"SocialWork", "AsistService",
                                    "UtilityWork"})))

C9_Witness ==
    /\ CouncilRun("services")
    /\ Len(services) = 2
    /\ services[1].cls = "WorkTherapy"
    /\ services[2].cls = "WorkTherapyMeeting"
    /\ ServicesRow(report.rows, "work therapy")[2] = Num(1)
    /\ ServicesRow(report.rows, "work therapy")[3] = Num(2)

\* Every request a council report can be asked with.
\* The requests compared across a step: ranges before, on and around the
\* day of the encounters, without a town filter, with the encounters' town
\* and with another town, for both kinds of the report.
CouncilRequests ==
    {GovCouncilReport(ft[1], ft[2], k, ts, MaxDay) :
        ft \in {<<1, 1>>, <<2, 2>>, <<1, MaxDay>>}, k \in {1, 2},
        ts \in {{}, {"t1"}, {"t2"}}}

\* The client-count cells of a report: the value column of the 'clients'
\* kind, the persons column of the 'services' kind.
PersonsCells(r) ==
    LET rows == get_data(r)
    IN  [i \in 1..Len(rows) |->
            IF r.kind = "clients" THEN rows[i][3] ELSE rows[i][2]]

ContactWorkRow == 4

\* A step that adds an encounter of an anonymous person, or a service on
\* an encounter of an anonymous person, and nothing else.
AnonymousEncounterAdded ==
    /\ services' = services
    /\ Len(encounters') = Len(encounters) + 1
    /\ SubSeq(encounters', 1, Len(encounters)) = encounters
    /\ encounters'[Len(encounters')].person \in AnonymousIds

AnonymousServiceAdded ==
    /\ encounters' = encounters
    /\ Len(services') = Len(services) + 1
    /\ SubSeq(services', 1, Len(services)) = services
    /\ encounters[services'[Len(services')].encounter].person \in AnonymousIds

AnonymousStep ==
    /\ persons' = persons
    /\ syringes' = syringes
    /\ AnonymousEncounterAdded \/ AnonymousServiceAdded

\* C1 as claimed: adding encounters or services of anonymous persons leaves
\* every client-count cell of both kinds of the council report unchanged,
\* the ContactWork row included.
C1_NoAnonymousInAnyCell ==
    [][AnonymousStep =>
          \A r \in CouncilRequests : PersonsCells(r)' = PersonsCells(r)]_vars

\* C1 as amended: adding encounters or services of anonymous persons leaves
\* every client-count cell unchanged except the persons cell of the
\* ContactWork row, which grows by one for each added ContactWork service
\* in scope.
C1_NoAnonymousButContactWork ==
    [][AnonymousStep =>
          \A r \in CouncilRequests :
              LET before == PersonsCells(r)
                  s == services'[Len(services')]
                  grows == /\ AnonymousServiceAdded
                           /\ s.cls = "ContactWork"
                           /\ EncounterInScope(r, encounters[s.encounter])
              IN  PersonsCells(r)' =
                      IF r.kind = "services" /\ grows
                      THEN [before EXCEPT ![ContactWorkRow] = Num(@.num + 1)]
                      ELSE before]_vars

C1_Witness ==
    /\ CouncilRun("services")
    /\ \E i \in 1..Len(services) :
          /\ services[i].cls = "ContactWork"
          /\ encounters[services[i].encounter].person \in AnonymousIds
    /\ \E i \in 1..Len(services) :
          /\ services[i].cls = "WorkTherapy"
          /\ encounters[services[i].encounter].person \in AnonymousIds
    /\ ServicesRow(report.rows, "contact work")[2] = Num(1)
    /\ ServicesRow(report.rows, "contact work")[3] = Num(1)
    /\ ServicesRow(report.rows, "work therapy")[2] = Num(0)
    /\ ServicesRow(report.rows, "work therapy")[3] = Num(1)

(***************************************************************************)
(* Town filter and date range of both reports (Spec).                      *)
(***************************************************************************)
\* The report a finished request would have returned had it passed towns.
RowsWithTowns(towns) ==
    LET c == report.call
    IN  IF report.name = "GovCouncilReport"
        THEN get_data(GovCouncilReport(c.date_from, c.date_to, c.kind, towns,
                                       MaxDay))
        ELSE get_anamnesis_list(HygieneReport(c.date_from, c.date_to, towns,
                                              c.kind))

\* C8: a report requested with an empty town filter returns what the same
\* request with the set of all towns returns: every row of the council
\* report and the anamnesis list of the hygiene report.
C8_EmptyTownFilter ==
    (report # None /\ report.call.towns = {}) =>
        report.rows = RowsWithTowns(Towns)

\* A council report without town filter that counts services of encounters
\* in two different towns.
C8_Witness ==
    /\ CouncilRun("services")
    /\ report.call.towns = {}
    /\ \E i, j \in 1..Len(services) :
          /\ services[i].cls = "ContactWork"
          /\ services[j].cls = "ContactWork"
          /\ encounters[services[i].encounter].where = "t1"
          /\ encounters[services[j].encounter].where = "t2"
    /\ ServicesRow(report.rows, "contact work")[3] = Num(2)

\* date_from <= day <= date_to and the requested towns, none meaning all.
InRequestedRange(c, day, town) ==
    /\ c.date_from <= day
    /\ day <= c.date_to
    /\ c.towns = {} \/ town \in c.towns

\* C10: the date range of both reports includes date_from and date_to.
\* The council report counts the services, encounters and syringe
\* collections dated date_from..date_to; the hygiene report (prevalence)
\* lists the clients with an anamnesis whose first encounter of the year
\* is dated date_from..date_to.
C10_InclusiveDateRange ==
    LET c == report.call
        contact_work ==
            {i \in 1..Len(services) :
                /\ services[i].cls = "ContactWork"
                /\ InRequestedRange(c,
                       encounters[services[i].encounter].performed_on,
                       encounters[services[i].encounter].where)}
        direct ==
            {i \in 1..Len(encounters) :
                /\ encounters[i].person \notin AnonymousIds
                /\ ~encounters[i].is_by_phone
                /\ InRequestedRange(c, encounters[i].performed_on,
                                    encounters[i].where)}
        collected ==
            SelectSeq(syringes,
                      LAMBDA y : InRequestedRange(c, y.date, y.town))
        first == FirstEncounters(YearOf(c.date_from),
                                 IF c.towns = {} THEN Towns ELSE c.towns)
        expected ==
            {p \in ClientIds :
                /\ persons[p].anamnesis # None
                /\ \E i \in Range(first) :
                      /\ encounters[i].person = p
                      /\ c.date_from <= encounters[i].performed_on
                      /\ encounters[i].performed_on <= c.date_to}
    IN  /\ CouncilRun("services") =>
              /\ ServicesRow(report.rows, "contact work")[3]
                     = Num(Cardinality(contact_work))
              /\ report.rows[1][3] = Num(Cardinality(direct))
              /\ ServicesRow(report.rows, "syringes found")[3]
                     = SumAggregate([i \in 1..Len(collected) |->
                                        collected[i].count])
        /\ (HygieneRun /\ report.r.kind = "prevalence") =>
              Listed(report.rows) = expected

(***************************************************************************)
(* Shape of the rows of the council report (Spec).                         *)
(***************************************************************************)
\* The identifying columns of a row: code and label of a 'clients' row, the
\* service name of a 'services' row.
RowLabels(kind, rows) ==
    [i \in 1..Len(rows) |->
        IF kind = "clients" THEN <<rows[i][1], rows[i][2]>> ELSE rows[i][1]]

\* The rows of the form, in its order, for the 'clients' kind.
ClientsForm ==
    <<
       <<"TP", "">>,
       <<"skupina 1", "drug users except alcohol and tobacco">>,
       <<"1.1", "heroin">>, <<"1.2", "buprenorphine">>,
       <<"1.3", "methadone">>, <<"1.4", "other opiates">>,
       <<"1.5", "methamphetamine">>, <<"1.6", "cocaine/crack">>,
       <<"1.7", "cannabinoids">>, <<"1.8", "ecstasy">>,
       <<"1.9", "hallucinogens">>, <<"1.10", "inhalants">>,
       <<"1.11", "other drug">>, <<"1.12", "drug users total">>,
       <<"1.12.1", "of them men">>, <<"1.12.2", "of them injecting">>,
       <<"1.13", "average age">>, <<"skupina 2", "alcohol">>,
       <<"2.1", "alcohol users total">>, <<"2.1.1", "of them men">>,
       <<"2.2", "average age">>, <<"skupina 3", "tobacco">>,
       <<"3.1", "tobacco users total">>, <<"3.1.1", "of them men">>,
       <<"3.2", "average age">>, <<"skupina 4", "non-substance addictions">>,
       <<"4.1", "pathological gambling">>,
       <<"4.2", "other non-substance addiction">>,
       <<"4.3", "non-substance total">>, <<"4.3.1", "of them men">>,
       <<"4.4", "average age">>, <<"skupina 5", "identified clients total">>,
       <<"5.1", "all clients, users">>,
       <<"5.1.1", "of them first contacts">>, <<"5.2", "other clients">>,
       <<"5.3", "all clients">>, <<"skupina 6", "unidentified clients">>,
       <<"6.1", "estimate, opiates">>,
       <<"6.2", "estimate, methamphetamine">>,
       <<"6.3", "estimate, injecting">>, <<"skupina 7", "mediated contact">>,
       <<"7.1", "estimate, mediated contact">>
    >>

\* The rows of the form, in its order, for the 'services' kind.
ServicesForm ==
    <<
       "direct contacts with clients",
       "indirect contacts with identified clients",
       "acts needed for direct work", "contact work", "income form fillup",
       "individual counselling", "individual psychotherapy",
       "group counselling", "group psychotherapy", "crisis intervention",
       "family therapy", "groups for parents and close persons",
       "work therapy", "social work", "work with family", "sociotherapy",
       "sheltered work", "psychiatric examination", "somatic examination",
       "pharmacotherapy", "- substitution administered",
       "- substitution prescribed", "basic medical treatment",
       "phone, written and internet counselling", "correspondence work",
       "information service", "educational programme",
       "harm reduction material", "syringes given out", "syringes taken in",
       "syringes found", "hygienic service", "food service",
       "infectious disease testing", "- HIV", "- HCV", "- HBV", "- syphilis",
       "urine drug test", "urine pregnancy test",
       "addictologist examination, initial (38021)",
       "addictologist examination, follow-up (39022)",
       "addictologist minimal contact (38023)",
       "addictological therapy, individual (38024)",
       "addictological therapy, family (38025)",
       "addictological therapy, group (38026)", "total time of all services"
    >>

\* C11: the number, order and labels of the rows get_data returns depend
\* on the kind only: every 'clients' report has the rows of the clients
\* form and every 'services' report those of the services form, whatever
\* the dataset, date range and town filter.
C11_RowOrderFixed ==
    /\ CouncilRun("clients") =>
           RowLabels("clients", report.rows) = ClientsForm
    /\ CouncilRun("services") =>
           RowLabels("services", report.rows) = ServicesForm

\* A 'services' report over a dataset with services in scope, requested
\* with a town filter.
C11_Witness ==
    /\ CouncilRun("services")
    /\ report.call.towns = {"t2"}
    /\ ServicesRow(report.rows, "contact work")[3] = Num(1)
    /\ ServicesRow(report.rows, "syringes found")[3] = Null
    /\ Len(syringes) = 1

\* The value cells of a row: the client count of a 'clients' row, the
\* persons and services counts of a 'services' row.
ValueCells(kind, row) ==
    IF kind = "clients" THEN {row[3]} ELSE {row[2], row[3]}

\* C12: every value cell of every row get_data returns is a number or a
\* string, never null, also when no harm reduction service and no syringe
\* collection is in scope.
C12_CellsNumberOrString ==
    \A kind \in {"clients", "services"} :
        CouncilRun(kind) =>
            \A i \in 1..Len(report.rows) :
                \A cell \in ValueCells(kind, report.rows[i]) :
                    IsNum(cell) \/ IsStr(cell)

(***************************************************************************)
(* Statistics of InformationService (SpecStats).                           *)
(***************************************************************************)
StatsRun == report # None /\ report.name = "InformationService._get_stats"

\* The InformationService records the filtering of the call selects.
InformationRecords ==
    {i \in 1..Len(services) :
        /\ services[i].cls = "InformationService"
        /\ encounters[services[i].encounter].performed_on
               \in report.call.encounter__performed_on__gte
                   ..report.call.encounter__performed_on__lte}

\* C13: the first row of InformationService._get_stats is the total, the
\* seven rows after it are the per-flag counts, and the total is their
\* sum: every record in scope contributes the number of its flags set.
C13_TotalIsSumOfFlags ==
    StatsRun =>
        LET rows == report.rows
        IN  /\ Len(rows) = 1 + Len(InformationFields)
            /\ rows[1][2] = SumSeq([i \in 1..Len(InformationFields) |->
                                       rows[i + 1][2]])
            /\ rows[1][2] = SumSeq([i \in 1..Len(services) |->
                                       IF i \in InformationRecords
                                       THEN Cardinality(services[i].fields.flags)
                                       ELSE 0])
            /\ \A i \in 1..Len(InformationFields) :
                   rows[i + 1][2] = Cardinality(
                       {j \in InformationRecords :
                           InformationFields[i] \in services[j].fields.flags})

\* A total that differs from the number of records in scope: one record
\* with two flags set and one with none.
C13_Witness ==
    /\ StatsRun
    /\ Cardinality(InformationRecords) = 2
    /\ \E i, j \in InformationRecords :
          /\ services[i].fields.flags = {}
          /\ Cardinality(services[j].fields.flags) = Len(InformationFields)
    /\ report.rows[1][2] = Len(InformationFields)

(***************************************************************************)
(* The reports only read (Spec).                                           *)
(***************************************************************************)
\* A step in which a report is run.
ReportRuns == report = None /\ report' # None

\* C14: running a report, GovCouncilReport.get_data or
\* HygieneReport.get_anamnesis_list of either kind, leaves the stored
\* persons with their anamneses and risky manners, the encounters, the
\* services and the syringe collections as they were.
C14_ReportsReadOnly ==
    [][ReportRuns => /\ persons' = persons
                     /\ encounters' = encounters
                     /\ services' = services
                     /\ syringes' = syringes]_vars

\* A hygiene report in incidence mode that returned an annotated anamnesis
\* over a database with encounters, services and a syringe collection.
C14_Witness ==
    /\ HygieneRun
    /\ report.r.kind = "incidence"
    /\ Len(report.rows) = 1
    /\ Len(encounters) = MaxEncounters
    /\ Len(services) = MaxServices
    /\ Len(syringes) = MaxSyringes

(***************************************************************************)
(* Client notes (SpecNotes).                                               *)
(***************************************************************************)
\* A step that serves a request to add_note / delete_note.
AddNoteServed == report = None /\ report' # None /\ report'.name = "add_note"
DeleteNoteServed ==
    report = None /\ report' # None /\ report'.name = "delete_note"

\* The response carries an error message for the user.
IsErrorMessage(response) ==
    /\ response.kind = "HttpResponse"
    /\ DOMAIN response.content = {"json"}
    /\ DOMAIN response.content.json = {"error"}
    /\ response.content.json.error # ""

\* C15: a POST AJAX request to add_note whose form is invalid, whichever
\* fields are in error, is answered with an error message and leaves the
\* stored notes as they were.
C15_InvalidNoteRejected ==
    [][(/\ AddNoteServed
        /\ report'.call.method = "POST"
        /\ report'.call.is_ajax
        /\ ClientNoteForm_errors(report'.call.POST) # {})
           => /\ IsErrorMessage(report'.response)
              /\ notes' = notes]_vars

\* An invalid form whose only error is the client, answered with the
\* message about the client while a note is stored.
C15_Witness ==
    /\ report # None
    /\ report.name = "add_note"
    /\ report.call.method = "POST"
    /\ report.call.is_ajax
    /\ ClientNoteForm_errors(report.call.POST) = {"client"}
    /\ report.response =
           HttpResponse(serialize([error |-> "the client does not exist"]))
    /\ Cardinality(notes) = 1

\* The call asks for a note that is not stored.
NoteMissing == report'.call.note_id \notin {n.pk : n \in notes}

\* C16 as claimed: delete_note with a note_id that matches no stored note
\* answers not-found and leaves the stored notes unchanged, whoever calls.
C16_MissingNoteNotFound ==
    [][(DeleteNoteServed /\ NoteMissing)
           => /\ report'.response = Http404
              /\ notes' = notes]_vars

\* C16 as amended: delete_note with a note_id that matches no stored note
\* answers not-found when the caller holds the permission to delete notes
\* and sends any other caller to the login page; the stored notes are
\* unchanged in both cases.
C16_MissingNoteNotFoundIfPermitted ==
    [][(DeleteNoteServed /\ NoteMissing)
           => /\ report'.response =
                     IF has_perm(report'.call.request.user,
                                 "clients.delete_clientnote")
                     THEN Http404
                     ELSE HttpResponseRedirect("login")
              /\ notes' = notes]_vars

\* A permitted AJAX caller asked for a missing note while another note is
\* stored, and got not-found.
C16_Witness ==
    /\ report # None
    /\ report.name = "delete_note"
    /\ report.call.request.is_ajax
    /\ report.call.request.user = "bob"
    /\ report.call.note_id \notin {n.pk : n \in notes}
    /\ notes # {}
    /\ report.response = Http404

\* C17: every request to delete_note ends in a definite outcome: the note
\* is deleted and the answer is 'OK', or a failure is signalled (not found,
\* or the permission refused); no request ends without a response.
C17_DeleteNoteAnswers ==
    (report # None /\ report.name = "delete_note") =>
        \/ /\ report.response = HttpResponse(Str("OK"))
           /\ report.call.note_id \notin {n.pk : n \in notes}
        \/ report.response = Http404
        \/ report.response = HttpResponseRedirect("login")

\* C21: delete_note removes a note only when the request is AJAX, the
\* requester holds clients.delete_clientnote and is a superuser or the
\* note's author; otherwise every stored note stays as it was, and a
\* removed note is always the one named by note_id.
C21_DeleteNoteGuarded ==
    [][DeleteNoteServed =>
          LET request == report'.call.request
              removed == notes \ notes'
          IN  /\ notes' \subseteq notes
              /\ \A n \in removed :
                    /\ n.pk = report'.call.note_id
                    /\ request.is_ajax
                    /\ has_perm(request.user, "clients.delete_clientnote")
                    /\ is_superuser(request.user) \/ n.author = request.user
              /\ (~request.is_ajax
                    \/ ~has_perm(request.user, "clients.delete_clientnote"))
                     => notes' = notes]_vars

\* A permitted AJAX requester who is neither a superuser nor the author
\* named a stored note of another author, and the note is still stored.
C21_Witness ==
    /\ report # None
    /\ report.name = "delete_note"
    /\ report.call.request.is_ajax
    /\ report.call.request.user = "bob"
    /\ \E n \in notes : n.pk = report.call.note_id /\ n.author = "alice"
    /\ report.response = ReturnedNone

\* The note a successful add_note answers with.
NoteAnswer(n) ==
    HttpResponse(serialize([id |-> n.pk, author |-> n.author,
                            datetime |-> format(n.datetime),
                            text |-> n.text]))

\* C22: add_note creates a note only for a POST AJAX request with a valid
\* form; a request that is not POST or not AJAX raises not-found and
\* creates nothing; a successful request creates exactly one note, whose
\* author is the requesting user whatever author was posted, and answers
\* with that note's id, author, datetime and text.
C22_AddNoteCreates ==
    [][AddNoteServed =>
          LET request == report'.call
              valid == ClientNoteForm_errors(request.POST) = {}
              proper == request.method = "POST" /\ request.is_ajax
              created == notes' \ notes
          IN  /\ notes \subseteq notes'
              /\ created # {} => proper /\ valid
              /\ ~proper => report'.response = Http404 /\ notes' = notes
              /\ (proper /\ valid) =>
                    /\ Cardinality(created) = 1
                    /\ \A n \in created :
                          /\ n.author = request.user
                          /\ report'.response = NoteAnswer(n)]_vars

\* A valid POST AJAX request by alice that posted admin as the author
\* stored a note of alice next to an earlier note.
C22_Witness ==
    /\ report # None
    /\ report.name = "add_note"
    /\ report.call.method = "POST"
    /\ report.call.is_ajax
    /\ report.call.user = "alice"
    /\ report.call.POST.author = "admin"
    /\ ClientNoteForm_errors(report.call.POST) = {}
    /\ Cardinality(notes) = 2
    /\ \E n \in notes : n.author = "alice" /\ report.response = NoteAnswer(n)

(***************************************************************************)
(* Heroin row and drug-user total of the 'clients' report (SpecQuarter).   *)
(***************************************************************************)
\* The non-anonymous clients with an encounter in the requested range and
\* towns whose primary drug is one of the given drugs.
EncounteredClientsUsing(drugs) ==
    {c \in ClientIds :
        /\ persons[c].primary_drug \in drugs
        /\ \E i \in 1..Len(encounters) :
              /\ encounters[i].person = c
              /\ InRequestedRange(report.call, encounters[i].performed_on,
                                  encounters[i].where)}

\* C18: in the 'clients' report row 1.1 is the number of non-anonymous
\* clients with primary drug heroin and an encounter in scope, and row 1.12
\* the number of those with any primary drug but alcohol and tobacco.
C18_HeroinRowAndTotal ==
    CouncilRun("clients") =>
        /\ ClientsCell(report.rows, "1.1")
               = Num(Cardinality(EncounteredClientsUsing({"HEROIN"})))
        /\ ClientsCell(report.rows, "1.12")
               = Num(Cardinality(
                     EncounteredClientsUsing(DRUGS \ {"ALCOHOL", "TOBACCO"})))

\* The example: no town filter, three heroin clients, two alcohol clients
\* and an anonymous heroin user, all with an encounter in the range; rows
\* 1.1 and 1.12 are both 3.
C18_Witness ==
    /\ CouncilRun("clients")
    /\ report.call.towns = {}
    /\ \A p \in 1..Len(persons) :
          \E i \in 1..Len(encounters) :
              /\ encounters[i].person = p
              /\ InRequestedRange(report.call, encounters[i].performed_on,
                                  encounters[i].where)
    /\ Cardinality({c \in ClientIds : persons[c].primary_drug = "HEROIN"}) = 3
    /\ Cardinality({c \in ClientIds : persons[c].primary_drug = "ALCOHOL"}) = 2
    /\ \E a \in AnonymousIds : persons[a].primary_drug = "HEROIN"
    /\ ClientsCell(report.rows, "1.1") = Num(3)
    /\ ClientsCell(report.rows, "1.12") = Num(3)

(***************************************************************************)
(* The clients of the hygiene report and their first encounter             *)
(* (SpecHygiene).                                                          *)
(***************************************************************************)
\* The towns a hygiene request selects: all towns when none is given.
SelectedTowns == IF report.call.towns = {} THEN Towns ELSE report.call.towns

\* The dates of the encounters of client c in the selected towns.
DatesInTowns(c) ==
    {encounters[i].performed_on :
        i \in {j \in 1..Len(encounters) :
                  /\ encounters[j].person = c
                  /\ encounters[j].where \in SelectedTowns}}

\* C19: every anamnesis the hygiene report returns belongs to a client
\* with an Anamnesis whose first encounter of the report year in the
\* selected towns lies in the date range, and its
\* extra_first_encounter_date is the earliest date among the client's
\* encounters in the date range and the selected towns.
C19_FirstEncounterInRange ==
    HygieneRun =>
        \A i \in 1..Len(report.rows) :
            LET c == report.rows[i].client
                range == report.call.date_from..report.call.date_to
                of_year == {d \in DatesInTowns(c) :
                               YearOf(d) = YearOf(report.call.date_from)}
            IN  /\ c \in ClientIds
                /\ persons[c].anamnesis # None
                /\ of_year # {}
                /\ Min(of_year) \in range
                /\ report.rows[i].extra_first_encounter_date
                       = Min(DatesInTowns(c) \cap range)

\* A listed client with two encounters on different days of the range, in
\* a report restricted to one town.
C19_Witness ==
    /\ HygieneRun
    /\ report.call.towns = {"t1"}
    /\ Len(report.rows) = 1
    /\ Cardinality(DatesInTowns(report.rows[1].client)
                       \cap report.call.date_from..report.call.date_to) = 2
    /\ report.rows[1].extra_first_encounter_date = 1

(***************************************************************************)
(* Locked encounters in the admin (SpecAdmin).                             *)
(***************************************************************************)
AdminAsked(method) == report # None /\ report.name = method

\* The object of the call is a saved encounter.
ExistingEncounter == args.obj # None /\ The(args.obj).pk # None

\* C20: a saved encounter whose is_editable() is false has every field of
\* the fieldsets read-only, cannot be deleted and shows neither 'save and
\* add another' nor 'save and continue'; for an editable encounter the
\* read-only fields and the delete permission are those of the base admin;
\* 'save' is never shown.
C20_LockedEncounter ==
    /\ AdminAsked("get_readonly_fields") =>
          /\ (ExistingEncounter /\ ~The(args.obj).is_editable) =>
                 report.rows.fields = <<"person", "performed_on", "where",
                                        "is_by_phone", "performed_by">>
          /\ (args.obj # None /\ The(args.obj).is_editable) =>
                 report.rows.fields = args.base_readonly
    /\ AdminAsked("has_delete_permission") =>
          /\ (ExistingEncounter /\ ~The(args.obj).is_editable) =>
                 report.rows.answer = FALSE
          /\ (args.obj # None /\ The(args.obj).is_editable) =>
                 report.rows.answer = args.base_delete
    /\ AdminAsked("show_save_and_add_another") =>
          ((ExistingEncounter /\ ~The(args.obj).is_editable) =>
               report.rows.answer = FALSE)
    /\ AdminAsked("show_save_and_continue") =>
          ((ExistingEncounter /\ ~The(args.obj).is_editable) =>
               report.rows.answer = FALSE)
    /\ AdminAsked("show_save") => report.rows.answer = FALSE

\* The delete permission of a saved, not editable encounter was asked for
\* while the base admin would grant it.
C20_Witness ==
    /\ AdminAsked("has_delete_permission")
    /\ ExistingEncounter
    /\ ~The(args.obj).is_editable
    /\ args.base_delete
    /\ report.rows.answer = FALSE

(***************************************************************************)
(* DiseaseTest.clean (SpecDiseaseTest).                                    *)
(***************************************************************************)
\* A step that submits a disease test.
DiseaseTestSubmitted ==
    report = None /\ report' # None /\ report'.name = "DiseaseTest"

\* A nullable field is given when it is neither null nor blank.
Given(value) == value \notin {None, Some("")}

\* The combinations the claim accepts.
Acceptable(self) ==
    /\ self.pre_test_advice \/ self.test_execution \/ self.post_test_advice
    /\ self.test_execution => Given(self.disease) /\ Given(self.sign)
    /\ ~self.test_execution => ~Given(self.disease) /\ ~Given(self.sign)

\* C23: DiseaseTest.clean accepts a record iff one of pre_test_advice,
\* test_execution, post_test_advice is set, a performed test has both
\* disease and sign, and a test not performed has neither; every other
\* record raises ValidationError and is not saved.
C23_DiseaseTestClean ==
    [][DiseaseTestSubmitted =>
          LET self == report'.call
          IN  /\ (report'.response = None) <=> Acceptable(self)
              /\ report'.response # None => services' = services
              /\ report'.response = None =>
                    /\ Len(services') = Len(services) + 1
                    /\ SubSeq(services', 1, Len(services)) = services]_vars

\* A counselling given with a sign but no performed test was rejected while
\* an accepted test is stored.
C23_Witness ==
    /\ report # None
    /\ report.name = "DiseaseTest"
    /\ report.call = DiseaseTest(TRUE, FALSE, FALSE, None, Some("p"))
    /\ report.response # None
    /\ Len(services) = 1
    /\ services[1].fields.disease = "HIV"

(***************************************************************************)
(* Prefilling of the encounter form (SpecPrefill).                         *)
(***************************************************************************)
\* A form field was built for a request.
FormfieldBuilt == report # None /\ report.name = "formfield_for_dbfield"

\* The initial value the claim gives the field of the request.
PrefillExpected(db_field, request) ==
    LET GET == request.GET
        previous ==
            IF GET.previous_id # None
                 /\ The(GET.previous_id) \in 1..Len(encounters)
            THEN Some(encounters[The(GET.previous_id)])
            ELSE None
        person ==
            IF GET.person_id # None /\ The(GET.person_id) \in 1..Len(persons)
            THEN Some(persons[The(GET.person_id)])
            ELSE None
    IN  IF previous # None
             /\ db_field \in {"person", "where", "performed_by",
                              "performed_on"}
        THEN Some(The(previous)[db_field])
        ELSE IF person # None /\ db_field = "person"
        THEN GET.person_id
        ELSE IF person # None /\ db_field = "where"
                  /\ "town_id" \in DOMAIN The(person)
        THEN Some(The(person).town_id)
        ELSE IF db_field = "performed_by"
        THEN Some({request.user})
        ELSE None

\* C24: the initial value of a field of the encounter form comes from the
\* encounter named by previous_id when it exists, even if person_id is
\* given too; else, for person and where, from the person named by
\* person_id (where only if the person has a town); else it is the default,
\* which for performed_by is the requesting user.
C24_PrefillPrecedence ==
    FormfieldBuilt =>
        report.response.initial =
            PrefillExpected(report.call.db_field, report.call.request)

\* Both parameters name stored rows that disagree about the town, and the
\* field 'where' took the town of the encounter.
C24_Witness ==
    /\ FormfieldBuilt
    /\ report.call.db_field = "where"
    /\ report.call.request.GET = [previous_id |-> Some(1),
                                  person_id |-> Some(1)]
    /\ persons[1].town_id = "t2"
    /\ report.response.initial = Some("t1")

(***************************************************************************)
(* Totals of the 'clients' report (SpecClients).                           *)
(***************************************************************************)
\* C25: in the 'clients' report rows 1.12 (drug users except alcohol and
\* tobacco), 2.1 (alcohol) and 3.1 (tobacco) add up to row 5.1 (all drug
\* users), and row 4.3 is the sum of rows 4.1 and 4.2.
C25_DrugUserPartition ==
    CouncilRun("clients") =>
        /\ ClientsCell(report.rows, "1.12").num
              + ClientsCell(report.rows, "2.1").num
              + ClientsCell(report.rows, "3.1").num
                  = ClientsCell(report.rows, "5.1").num
        /\ ClientsCell(report.rows, "4.3").num
              = ClientsCell(report.rows, "4.1").num
                  + ClientsCell(report.rows, "4.2").num

\* A tobacco user and a client with another non-substance addiction were
\* both encountered in scope: rows 3.1, 1.12, 4.2 and 4.3 are 1, row 5.1
\* is 2.
C25_Witness ==
    /\ CouncilRun("clients")
    /\ ClientsCell(report.rows, "3.1") = Num(1)
    /\ ClientsCell(report.rows, "1.12") = Num(1)
    /\ ClientsCell(report.rows, "4.2") = Num(1)
    /\ ClientsCell(report.rows, "4.3") = Num(1)
    /\ ClientsCell(report.rows, "5.1") = Num(2)

(***************************************************************************)
(* Total of all clients (SpecQuarter).                                     *)
(***************************************************************************)
\* The non-anonymous clients with an encounter in the requested range and
\* towns.
EncounteredClients ==
    {c \in ClientIds :
        \E i \in 1..Len(encounters) :
            /\ encounters[i].person = c
            /\ InRequestedRange(report.call, encounters[i].performed_on,
                                encounters[i].where)}

\* C26: row 5.3 of the 'clients' report counts each client at most once:
\* it never exceeds the number of distinct clients with an encounter in
\* scope, also when a client with a primary drug is flagged close_person or
\* sex_partner.
C26_TotalCountsClientsOnce ==
    CouncilRun("clients") =>
        ClientsCell(report.rows, "5.3").num <= Cardinality(EncounteredClients)

(***************************************************************************)
(* Persons and services of the 'services' report (SpecServices).           *)
(***************************************************************************)
PerDiseaseLabels == {"- HIV", "- HCV", "- HBV", "- syphilis"}

\* C27: in every row of the 'services' report whose persons cell and
\* services cell are both numbers the persons count is at most the services
\* count; the services cell of the information service row is not
\* negative; each per-disease row is at most the row of all disease tests
\* in both cells.
C27_PersonsAtMostServices ==
    CouncilRun("services") =>
        LET rows == report.rows
            all_tests == ServicesRow(rows, "infectious disease testing")
        IN  /\ \A i \in 1..Len(rows) :
                  (IsNum(rows[i][2]) /\ IsNum(rows[i][3]))
                      => rows[i][2].num <= rows[i][3].num
            /\ ServicesRow(rows, "information service")[3].num >= 0
            /\ \A label \in PerDiseaseLabels :
                  /\ ServicesRow(rows, label)[2].num <= all_tests[2].num
                  /\ ServicesRow(rows, label)[3].num <= all_tests[3].num

\* An information service of the client and one of the anonymous person are
\* in scope: the row shows one person and one service.
C27_Witness ==
    /\ CouncilRun("services")
    /\ Len(services) = 2
    /\ \A i \in 1..2 : services[i].cls = "InformationService"
    /\ encounters[services[1].encounter].person \in ClientIds
    /\ encounters[services[2].encounter].person \in AnonymousIds
    /\ ServicesRow(report.rows, "information service")[2] = Num(1)
    /\ ServicesRow(report.rows, "information service")[3] = Num(1)

====
